---------------------------- MODULE Spec2Model ----------------------------
(***************************************************************************)
(* A model of the photo-ingestion Lambda of photo3s                        *)
(* (handler/src/upload-lambda.js).                                         *)
(*                                                                         *)
(* One invocation of exports.handler is a job.  A job walks through the    *)
(* handler's awaits one storage call (or one bounded race) at a time; the  *)
(* storage service, the clock and the failures of calls are the           *)
(* environment.                                                            *)
(*                                                                         *)
(* Strings are sequences of tokens.  A token is either one separator       *)
(* character ("/", ".", "-", "_", ":", " ", "+", "T", "Z") or a maximal    *)
(* run of other characters ("photo", "2025", "JPG").  The string functions *)
(* of the source (split, pop, replace, startsWith, endsWith, toLowerCase,  *)
(* template concatenation) are defined on that representation.             *)
(* An optional value (null / undefined in the source) is a sequence of     *)
(* length 0 or 1.                                                          *)
(***************************************************************************)
EXTENDS Integers, Sequences, FiniteSets, TLC

\* ------------------------------------------------------------------ bounds

\* How many of the six uploads of one job the environment disturbs (fails at
\* least once).  Every other call of the handler may fail freely.
MaxFlakyUploads == 1

\* ------------------------------------------------------- optional values

Null == << >>

Some(x) == << x >>

IsNull(o) == Len(o) = 0

Val(o) == o[1]

\* --------------------------------------------------------------- strings

Whitespace == { " " }

\* String.prototype.toLowerCase on one token.
LowerTok(t) ==
    CASE t = "JPG"         -> "jpg"
      [] t = "PNG"         -> "png"
      [] t = "GIF"         -> "gif"
      [] t = "DSC003344"   -> "dsc003344"
      [] t = "Canon"       -> "canon"
      [] t = "CANON"       -> "canon"
      [] t = "NIKON"       -> "nikon"
      [] t = "CORPORATION" -> "corporation"
      [] t = "Replace"     -> "replace"
      [] t = "Move"        -> "move"
      [] t = "T"           -> "t"
      [] t = "Z"           -> "z"
      [] OTHER             -> t

toLowerCase(s) == [i \in DOMAIN s |-> LowerTok(s[i])]

\* Index of the first / last occurrence of token t in s, 0 when absent.
IndexOf(s, t) ==
    IF \E i \in DOMAIN s : s[i] = t
    THEN CHOOSE i \in DOMAIN s : s[i] = t /\ \A k \in 1..(i - 1) : s[k] # t
    ELSE 0

LastIndexOf(s, t) ==
    IF \E i \in DOMAIN s : s[i] = t
    THEN CHOOSE i \in DOMAIN s : s[i] = t /\ \A k \in (i + 1)..Len(s) : s[k] # t
    ELSE 0

\* s.split(t)[0]
SplitFirst(s, t) ==
    IF IndexOf(s, t) = 0 THEN s ELSE SubSeq(s, 1, IndexOf(s, t) - 1)

\* s.split(t).pop()
SplitPop(s, t) == SubSeq(s, LastIndexOf(s, t) + 1, Len(s))

\* s.replace(/[...]/g, by) for a character class given as a set of tokens.
ReplaceAll(s, class, by) == [i \in DOMAIN s |-> IF s[i] \in class THEN by ELSE s[i]]

\* s.replace(t, by): the first occurrence only.
ReplaceFirst(s, t, by) ==
    [i \in DOMAIN s |-> IF i = IndexOf(s, t) THEN by ELSE s[i]]

\* s.replace(/\s+/g, "_"): every maximal run of whitespace becomes one "_".
RECURSIVE ReplaceWhitespaceRuns(_)
ReplaceWhitespaceRuns(s) ==
    IF s = << >> THEN << >>
    ELSE IF Head(s) \in Whitespace
         THEN IF Len(s) > 1 /\ s[2] \in Whitespace
              THEN ReplaceWhitespaceRuns(Tail(s))
              ELSE << "_" >> \o ReplaceWhitespaceRuns(Tail(s))
         ELSE << Head(s) >> \o ReplaceWhitespaceRuns(Tail(s))

startsWith(s, p) == Len(p) <= Len(s) /\ SubSeq(s, 1, Len(p)) = p

endsWith(s, p) == Len(p) <= Len(s) /\ SubSeq(s, Len(s) - Len(p) + 1, Len(s)) = p

\* Index at which sub first occurs in s, 0 when it does not.
FindSub(s, sub) ==
    LET starts == { i \in 1..(Len(s) - Len(sub) + 1) : SubSeq(s, i, i + Len(sub) - 1) = sub }
    IN  IF starts = {} THEN 0 ELSE CHOOSE i \in starts : \A k \in starts : i <= k

\* s.replace(sub, ""): the first occurrence of the substring removed.
RemoveFirst(s, sub) ==
    IF FindSub(s, sub) = 0 THEN s
    ELSE SubSeq(s, 1, FindSub(s, sub) - 1) \o SubSeq(s, FindSub(s, sub) + Len(sub), Len(s))

\* regex.test(s) for an alternation of literal words, case-sensitive.
TestAny(s, words) == \E i \in DOMAIN s : s[i] \in words


\* ----------------------------------------------------------------- dates

\* A Date: calendar day, time of day and milliseconds, each already in the
\* zero-padded form toISOString prints.
MkDate(y, mo, d, h, mi, sec, ms) ==
    [ymd |-> << y, mo, d >>, hms |-> << h, mi, sec >>, ms |-> ms]

\* Date.prototype.toISOString: YYYY-MM-DDTHH:MM:SS.mmmZ
toISOString(d) ==
    << d.ymd[1], "-", d.ymd[2], "-", d.ymd[3], "T",
       d.hms[1], ":", d.hms[2], ":", d.hms[3], ".", d.ms, "Z" >>

\* --------------------------------------------------- program constants

SUPPORTED_FORMATS ==
    { << "jpg" >>, << "jpeg" >>, << "png" >>, << "tiff" >>, << "tif" >>, << "webp" >> }

\* The attempt limit every call site passes to retryWithBackoff.
MaxRetries == 3

\* The size tolerance of the duplicate scan, in bytes.
SizeTolerance == 1024

\* MaxKeys of the duplicate scan's ListObjectsV2 call.
MaxKeys == 100

\* process.env.MAX_FILE_SIZE unset: 100 MB.
DefaultMaxFileSize == 104857600

SizeLabels == << "large", "medium", "small", "thumb" >>

\* --------------------------------------------------------------- errors

\* new Error(message): the message as a string, the constructor's name.
Err(name, message) == [name |-> name, message |-> message]

Threw(e) == [threw |-> TRUE, error |-> e]

Returned(v) == [threw |-> FALSE, value |-> v]

MsgNoRecords == << "No", " ", "S3", " ", "records", " ", "found", " ", "in", " ", "event" >>

MsgInvalidRecord == << "Invalid", " ", "S3", " ", "record", " ", "structure" >>

MsgUnsupported(ext) == << "Unsupported", " ", "file", " ", "format", ":", " " >> \o ext

MsgTooLarge == << "File", " ", "size", " ", "N", "MB", " ", "exceeds", " ", "maximum", " ", "M", "MB" >>

MsgNotAllowed(b) == << "Bucket", " ", b, " ", "not", " ", "allowed" >>

MsgAlreadyInDuplicates == << "already", "_", "in", "_", "duplicates" >>

MsgDuplicateDetected == << "duplicate", "_", "detected" >>

MsgEmptyBody == << "Empty", " ", "S3", " ", "body" >>

MsgProcessingTimeout == << "Image", " ", "processing", " ", "timeout" >>

MsgExifTimeout == << "EXIF", " ", "parsing", " ", "timeout" >>

MsgTypeError == << "Cannot", " ", "read", " ", "properties", " ", "of", " ", "undefined" >>

MsgUriMalformed == << "URI", " ", "malformed" >>

\* Messages of failures raised outside the handler's own code: the storage
\* client and the resize capability.
MsgNoSuchKey == << "The", " ", "specified", " ", "key", " ", "does", " ", "not", " ", "exist", "." >>

MsgAccessDenied == << "Access", " ", "Denied" >>

MsgSharpInput == << "Input", " ", "buffer", " ", "contains", " ", "unsupported", " ", "image", " ", "format" >>

\* ------------------------------------------------------- validateEvent

\* decodeURIComponent(raw.replace(/\+/g, " ")) on the escapes the events of
\* this model carry: "%20" is a space, a lone "%" is malformed.
DecodeKey(raw) ==
    LET spaced == ReplaceAll(raw, { "+" }, " ")
    IN  IF TestAny(spaced, { "%" })
        THEN Threw(Err("URIError", MsgUriMalformed))
        ELSE Returned(ReplaceAll(spaced, { "%20" }, " "))

\* A validateEvent that reads the last record of the batch.
validateEventLastRecord(event) ==
    IF IsNull(event) THEN Threw(Err("TypeError", MsgTypeError))
    ELSE IF Len(Val(event).Records) = 0 THEN Threw(Err("Error", MsgNoRecords))
    ELSE LET record == Val(event).Records[Len(Val(event).Records)] IN
         IF IsNull(record.s3) \/ IsNull(Val(record.s3).bucket) \/ IsNull(Val(record.s3).object)
         THEN Threw(Err("Error", MsgInvalidRecord))
         ELSE LET sourceBucket == Val(Val(record.s3).bucket).name
                  object       == Val(Val(record.s3).object)
              IN  IF IsNull(object.key) THEN Threw(Err("TypeError", MsgTypeError))
                  ELSE LET decoded == DecodeKey(Val(object.key)) IN
                       IF decoded.threw THEN decoded
                       ELSE LET key == decoded.value
                                fileSize == IF object.size = 0 THEN Null ELSE Some(object.size)
                                ext == toLowerCase(SplitPop(key, "."))
                            IN  IF ext = << >> \/ ext \notin SUPPORTED_FORMATS
                                THEN Threw(Err("Error", MsgUnsupported(ext)))
                                ELSE Returned([sourceBucket |-> sourceBucket, key |-> key,
                                               fileSize |-> fileSize, ext |-> ext])

validateEvent(event) ==
    IF IsNull(event) THEN Threw(Err("TypeError", MsgTypeError))
    ELSE IF Len(Val(event).Records) = 0 THEN Threw(Err("Error", MsgNoRecords))
    ELSE LET record == Val(event).Records[1] IN
         IF IsNull(record.s3) \/ IsNull(Val(record.s3).bucket) \/ IsNull(Val(record.s3).object)
         THEN Threw(Err("Error", MsgInvalidRecord))
         ELSE LET sourceBucket == Val(Val(record.s3).bucket).name
                  object       == Val(Val(record.s3).object)
              IN  IF IsNull(object.key) THEN Threw(Err("TypeError", MsgTypeError))
                  ELSE LET decoded == DecodeKey(Val(object.key)) IN
                       IF decoded.threw THEN decoded
                       ELSE LET key == decoded.value
                                fileSize == IF object.size = 0 THEN Null ELSE Some(object.size)
                                ext == toLowerCase(SplitPop(key, "."))
                            IN  IF ext = << >> \/ ext \notin SUPPORTED_FORMATS
                                THEN Threw(Err("Error", MsgUnsupported(ext)))
                                ELSE Returned([sourceBucket |-> sourceBucket, key |-> key,
                                               fileSize |-> fileSize, ext |-> ext])

\* ------------------------------------------------ resolveBucketMapping

\* A resolveBucketMapping without the allow-list test.
resolveBucketMappingAnyBucket(CONFIG, sourceBucket, key, fileSize) ==
    IF ~IsNull(fileSize) /\ Val(fileSize) > CONFIG.MAX_FILE_SIZE
    THEN Threw(Err("Error", MsgTooLarge))
    ELSE IF startsWith(key, CONFIG.DUPLICATES_PREFIX)
    THEN Threw(Err("Error", MsgAlreadyInDuplicates))
    ELSE LET mapped == IF sourceBucket \in DOMAIN CONFIG.BUCKET_MAPPINGS
                       THEN CONFIG.BUCKET_MAPPINGS[sourceBucket].processed
                       ELSE Null
             targetBucket == IF IsNull(mapped) THEN sourceBucket ELSE Val(mapped)
         IN  Returned([targetBucket |-> targetBucket,
                       isUsingSeparateBucket |-> ~IsNull(mapped) /\ Val(mapped) # sourceBucket])

\* A resolveBucketMapping without the size test.
resolveBucketMappingAnySize(CONFIG, sourceBucket, key, fileSize) ==
    IF ~IsNull(CONFIG.ALLOWED_SOURCE_BUCKETS)
       /\ sourceBucket \notin Val(CONFIG.ALLOWED_SOURCE_BUCKETS)
    THEN Threw(Err("Error", MsgNotAllowed(sourceBucket)))
    ELSE IF startsWith(key, CONFIG.DUPLICATES_PREFIX)
    THEN Threw(Err("Error", MsgAlreadyInDuplicates))
    ELSE LET mapped == IF sourceBucket \in DOMAIN CONFIG.BUCKET_MAPPINGS
                       THEN CONFIG.BUCKET_MAPPINGS[sourceBucket].processed
                       ELSE Null
             targetBucket == IF IsNull(mapped) THEN sourceBucket ELSE Val(mapped)
         IN  Returned([targetBucket |-> targetBucket,
                       isUsingSeparateBucket |-> ~IsNull(mapped) /\ Val(mapped) # sourceBucket])

\* A resolveBucketMapping that never consults the mapping table.
resolveBucketMappingOwnBucket(CONFIG, sourceBucket, key, fileSize) ==
    IF ~IsNull(fileSize) /\ Val(fileSize) > CONFIG.MAX_FILE_SIZE
    THEN Threw(Err("Error", MsgTooLarge))
    ELSE IF ~IsNull(CONFIG.ALLOWED_SOURCE_BUCKETS)
            /\ sourceBucket \notin Val(CONFIG.ALLOWED_SOURCE_BUCKETS)
    THEN Threw(Err("Error", MsgNotAllowed(sourceBucket)))
    ELSE IF startsWith(key, CONFIG.DUPLICATES_PREFIX)
    THEN Threw(Err("Error", MsgAlreadyInDuplicates))
    ELSE Returned([targetBucket |-> sourceBucket, isUsingSeparateBucket |-> FALSE])

resolveBucketMapping(CONFIG, sourceBucket, key, fileSize) ==
    IF ~IsNull(fileSize) /\ Val(fileSize) > CONFIG.MAX_FILE_SIZE
    THEN Threw(Err("Error", MsgTooLarge))
    ELSE IF ~IsNull(CONFIG.ALLOWED_SOURCE_BUCKETS)
            /\ sourceBucket \notin Val(CONFIG.ALLOWED_SOURCE_BUCKETS)
    THEN Threw(Err("Error", MsgNotAllowed(sourceBucket)))
    ELSE IF startsWith(key, CONFIG.DUPLICATES_PREFIX)
    THEN Threw(Err("Error", MsgAlreadyInDuplicates))
    ELSE LET mapped == IF sourceBucket \in DOMAIN CONFIG.BUCKET_MAPPINGS
                       THEN CONFIG.BUCKET_MAPPINGS[sourceBucket].processed
                       ELSE Null
             targetBucket == IF IsNull(mapped) THEN sourceBucket ELSE Val(mapped)
         IN  Returned([targetBucket |-> targetBucket,
                       isUsingSeparateBucket |-> ~IsNull(mapped) /\ Val(mapped) # sourceBucket])

\* ---------------------------------------------------- generateBaseName

\* generateBaseName without the whitespace replacement: the camera string as read.
generateBaseNameRawCamera(exifDate, camera, now) ==
    LET shotDate  == IF IsNull(exifDate) THEN now ELSE Val(exifDate)
        timestamp == SplitFirst(
                       ReplaceFirst(ReplaceAll(toISOString(shotDate), { ":", "." }, "-"), "T", "_"),
                       ".")
    IN  [baseName |-> << "photo", "-" >> \o timestamp \o << "-" >> \o camera,
         shotDate |-> shotDate]

generateBaseName(exifDate, camera, now) ==
    LET shotDate  == IF IsNull(exifDate) THEN now ELSE Val(exifDate)
        timestamp == SplitFirst(
                       ReplaceFirst(ReplaceAll(toISOString(shotDate), { ":", "." }, "-"), "T", "_"),
                       ".")
    IN  [baseName |-> << "photo", "-" >> \o timestamp \o << "-" >> \o ReplaceWhitespaceRuns(camera),
         shotDate |-> shotDate]

\* ------------------------------------------------------- buildPhotoPath

buildPhotoPath(photoFolder, baseName, sizeLabel) ==
    LET sizeSuffix == IF sizeLabel = "original" THEN << >> ELSE << "_", sizeLabel >>
        extension  == IF sizeLabel = "original" THEN << >> ELSE << ".", "jpg" >>
    IN  photoFolder \o sizeSuffix \o extension


\* ------------------------------------------------- images and their EXIF

\* What ExifParser.create(buffer).parse() yields for an image: Null when the
\* parser throws (no JPEG/EXIF structure), otherwise the tags it found.
ExifResult(date, make, model, w, h) ==
    Some([tags |-> [DateTimeOriginal |-> date, Make |-> make, Model |-> model],
          imageSize |-> IF w = 0 THEN Null ELSE Some([width |-> w, height |-> h])])

Day1Morning == MkDate("2025", "09", "20", "03", "23", "33", "000")

Day1Noon == MkDate("2025", "09", "20", "12", "00", "00", "000")

Day1Dawn == MkDate("2025", "09", "20", "01", "00", "00", "000")

\* The wall clock of an invocation: new Date() reads Clock[clock].
Clock ==
    << MkDate("2025", "09", "21", "08", "00", "00", "123"),
       MkDate("2025", "09", "21", "08", "00", "01", "456") >>

CameraCanon == << "Canon" >>

CameraNikon == << "NIKON", " ", "CORPORATION" >>

\* The photographs of the model, by id: bytes, EXIF, and what sharp reports.
Photo(id) ==
    CASE id = "canonA" ->
           [size |-> 500000, width |-> 4000, height |-> 3000,
            exif |-> ExifResult(Some(Day1Morning), Some(CameraCanon), Some(<< "EOS" >>), 4000, 3000)]
      [] id = "canonB" ->
           \* another picture of the same camera and day, nearly the same size
           [size |-> 500200, width |-> 4000, height |-> 3000,
            exif |-> ExifResult(Some(Day1Noon), Some(CameraCanon), Some(<< "EOS" >>), 4000, 3000)]
      [] id = "canonFar" ->
           \* the same camera and day again, exactly the tolerance larger than canonB
           [size |-> 500200 + SizeTolerance, width |-> 4000, height |-> 3000,
            exif |-> ExifResult(Some(Day1Dawn), Some(CameraCanon), Some(<< "EOS" >>), 4000, 3000)]
      [] id = "canonTwin" ->
           \* another picture of the same camera in the same second as canonA,
           \* 2000 bytes larger
           [size |-> 502000, width |-> 4000, height |-> 3000,
            exif |-> ExifResult(Some(Day1Morning), Some(CameraCanon), Some(<< "EOS" >>), 4000, 3000)]
      [] id = "nikonC" ->
           [size |-> 800000, width |-> 6000, height |-> 4000,
            exif |-> ExifResult(Some(Day1Morning), Some(CameraNikon), Null, 0, 0)]
      [] id = "plainD" ->
           \* no EXIF block at all: the parser throws
           [size |-> 500000, width |-> 800, height |-> 600, exif |-> Null]

PhotoIds == { "canonA", "canonB", "canonFar", "nikonC", "plainD" }

\* The bytes of a stored object: an image (a photograph, or one of its
\* renditions), a JSON document, or bytes that are neither.
ImageBody(photo, label) == [kind |-> "image", photo |-> photo, label |-> label, meta |-> Null]

JsonBody(meta) == [kind |-> "json", photo |-> "", label |-> "", meta |-> Some(meta)]

GarbageBody == [kind |-> "garbage", photo |-> "", label |-> "", meta |-> Null]

\* Buffer length of an image body.
BodySize(body) ==
    IF body.label = "original" THEN Photo(body.photo).size ELSE Photo(body.photo).size \div 10

\* EXIF survives in the original only: sharp drops it from its output.
BodyExif(body) == IF body.label = "original" THEN Photo(body.photo).exif ELSE Null

\* --------------------------------------------------------- the storage

Obj(bucket, key, body, contentType, tags, by) ==
    [bucket |-> bucket, key |-> key, body |-> body, ContentType |-> contentType,
     Metadata |-> tags, by |-> by]

Exists(st, bucket, key) == \E o \in st : o.bucket = bucket /\ o.key = key

Lookup(st, bucket, key) == CHOOSE o \in st : o.bucket = bucket /\ o.key = key

\* A store in which a key, once written, keeps its first object.
StorePutKeepingFirst(st, o) ==
    IF Exists(st, o.bucket, o.key) THEN st ELSE st \cup { o }

\* PutObject / CopyObject: the key's previous object is replaced.
StorePut(st, o) == { x \in st : ~(x.bucket = o.bucket /\ x.key = o.key) } \cup { o }

\* DeleteObject: succeeds whether or not the key exists.
StoreDelete(st, bucket, key) == { x \in st : ~(x.bucket = bucket /\ x.key = key) }

\* The order in which ListObjectsV2 returns keys (UTF-8 binary order), for
\* the tokens at which two keys of this model can first differ.
TokRank(t) ==
    CASE t = "-" -> 1 [] t = "." -> 2 [] t = "/" -> 3
      [] t = "00" -> 10 [] t = "000" -> 11 [] t = "01" -> 12 [] t = "03" -> 13
      [] t = "08" -> 14 [] t = "09" -> 15 [] t = "12" -> 16 [] t = "123" -> 17
      [] t = "20" -> 18 [] t = "2025" -> 19 [] t = "21" -> 20 [] t = "23" -> 21
      [] t = "33" -> 22 [] t = "456" -> 23
      [] t = "CANON" -> 30 [] t = "Canon" -> 31 [] t = "JPG" -> 32 [] t = "NIKON" -> 33
      [] t = "_" -> 40
      [] t = "canon" -> 50 [] t = "jpg" -> 51 [] t = "json" -> 52 [] t = "large" -> 53
      [] t = "medium" -> 54 [] t = "photo" -> 55 [] t = "small" -> 56 [] t = "thumb" -> 57
      [] t = "unknown" -> 58
      [] OTHER -> 60

KeyLess(a, b) ==
    \E i \in 1..Len(b) :
        /\ \A k \in 1..(i - 1) : k <= Len(a) /\ a[k] = b[k]
        /\ \/ i = Len(a) + 1
           \/ i <= Len(a) /\ TokRank(a[i]) < TokRank(b[i])

\* The keys one ListObjectsV2 call with MaxKeys returns: the first MaxKeys
\* of the matching keys in listing order (the call is not continued).
ListedKeys(keys) ==
    IF Cardinality(keys) <= MaxKeys THEN keys
    ELSE { k \in keys : Cardinality({ m \in keys : KeyLess(m, k) }) < MaxKeys }

\* A listing in descending order of keys.
RECURSIVE SortKeysDescending(_)
SortKeysDescending(keys) ==
    IF keys = {} THEN << >>
    ELSE LET greatest == CHOOSE k \in keys : \A other \in keys \ { k } : ~KeyLess(k, other)
         IN  << greatest >> \o SortKeysDescending(keys \ { greatest })

\* A finite set of keys as the sequence ListObjectsV2 returns.
RECURSIVE SortKeys(_)
SortKeys(keys) ==
    IF keys = {} THEN << >>
    ELSE LET least == CHOOSE k \in keys : \A other \in keys \ { k } : ~KeyLess(other, k)
         IN  << least >> \o SortKeys(keys \ { least })


\* -------------------------------------------------------- buildMetadata

\* sharp(imageBuffer).metadata(): the pixel dimensions of the buffer.
SharpMetadata(body) ==
    IF body.label = "original"
    THEN [width |-> Photo(body.photo).width, height |-> Photo(body.photo).height]
    ELSE [width |-> Photo(body.photo).width \div 2, height |-> Photo(body.photo).height \div 2]

buildMetadata(key, baseName, shotDate, camera, original, imageBuffer, exif, ext, now) ==
    LET imageMetadata == SharpMetadata(imageBuffer)
        photoFolder   == baseName \o << "/" >>
    IN  [photoFolder |-> photoFolder,
         originalKey |-> key,
         newBaseName |-> baseName,
         timestamp   |-> toISOString(shotDate),
         camera      |-> Some(camera),
         fileSize    |-> IF original.ContentLength # 0 THEN original.ContentLength
                         ELSE BodySize(imageBuffer),
         originalDimensions |->
             Some([width |-> imageMetadata.width, height |-> imageMetadata.height, format |-> ext]),
         exifData    |-> IF IsNull(exif) THEN Null
                         ELSE Some([make |-> Val(exif).tags.Make, model |-> Val(exif).tags.Model,
                                    dateTimeOriginal |-> Null]),
         processedAt |-> toISOString(now),
         versions    |-> [original |-> buildPhotoPath(photoFolder, baseName, "original"),
                          large    |-> buildPhotoPath(photoFolder, baseName, "large"),
                          medium   |-> buildPhotoPath(photoFolder, baseName, "medium"),
                          small    |-> buildPhotoPath(photoFolder, baseName, "small"),
                          thumb    |-> buildPhotoPath(photoFolder, baseName, "thumb")]]

\* ------------------------------------------------------- uploadAllFiles

\* Six PutObjectCommands of which the last reuses the key of the first: the
\* metadata document written under the original's name.
UploadCommandsSharedKey(imageBuffer, original, photoFolder, baseName, ext, metadata) ==
    << [Key |-> photoFolder \o baseName \o << "." >> \o ext,
        Body |-> imageBuffer, ContentType |-> original.ContentType] >>
    \o [i \in 1..4 |->
          [Key |-> buildPhotoPath(photoFolder, baseName, SizeLabels[i]),
           Body |-> ImageBody(imageBuffer.photo, SizeLabels[i]),
           ContentType |-> "image/jpeg"]]
    \o << [Key |-> photoFolder \o baseName \o << "." >> \o ext,
           Body |-> JsonBody(metadata), ContentType |-> "application/json"] >>

\* The six PutObjectCommands, in the order the source builds them.
UploadCommands(imageBuffer, original, photoFolder, baseName, ext, metadata) ==
    << [Key |-> photoFolder \o baseName \o << "." >> \o ext,
        Body |-> imageBuffer, ContentType |-> original.ContentType] >>
    \o [i \in 1..4 |->
          [Key |-> buildPhotoPath(photoFolder, baseName, SizeLabels[i]),
           Body |-> ImageBody(imageBuffer.photo, SizeLabels[i]),
           ContentType |-> "image/jpeg"]]
    \o << [Key |-> photoFolder \o baseName \o << ".", "json" >>,
           Body |-> JsonBody(metadata), ContentType |-> "application/json"] >>

NumUploads == 6

\* ------------------------------------------------- buildSuccessResponse

buildSuccessResponse(baseName, key, metadata) ==
    [status |-> "success",
     baseName |-> baseName,
     originalKey |-> key,
     processedFiles |-> << metadata.versions.original, metadata.versions.large,
                           metadata.versions.medium, metadata.versions.small,
                           metadata.versions.thumb >>,
     metadata |-> metadata.photoFolder \o baseName \o << ".", "json" >>]

\* ---------------------------------------------------------- handleError

\* A classification whose patterns ignore the case of the message.
ErrorCategoryIgnoringCase(message) ==
    IF TestAny(message, { "getObject", "download", "Download" }) THEN "s3_download"
    ELSE IF TestAny(message, { "Sharp", "sharp", "resize", "Resize", "image", "Image" })
    THEN "image_processing"
    ELSE IF TestAny(message, { "putObject", "upload", "Upload" }) THEN "s3_upload"
    ELSE IF TestAny(message, { "EXIF", "exif" }) THEN "exif_parsing"
    ELSE IF TestAny(message, { "timeout", "Timeout" }) THEN "timeout"
    ELSE IF TestAny(message, { "memory", "Memory", "size", "Size" }) THEN "resource_limit"
    ELSE "unknown"

ErrorCategory(message) ==
    IF TestAny(message, { "getObject", "download" }) THEN "s3_download"
    ELSE IF TestAny(message, { "Sharp", "resize", "image" }) THEN "image_processing"
    ELSE IF TestAny(message, { "putObject", "upload" }) THEN "s3_upload"
    ELSE IF TestAny(message, { "EXIF" }) THEN "exif_parsing"
    ELSE IF TestAny(message, { "timeout" }) THEN "timeout"
    ELSE IF TestAny(message, { "memory", "size" }) THEN "resource_limit"
    ELSE "unknown"

\* A catch block that rethrows: the invocation ends with the exception
\* itself, which is no result of the handler.
handleErrorRethrows(error, processingPhase, key) ==
    [status |-> "uncaught",
     error |-> error.message,
     errorCategory |-> "unknown",
     processingPhase |-> processingPhase,
     originalKey |-> key]

handleError(error, processingPhase, key) ==
    [status |-> "error",
     error |-> error.message,
     errorCategory |-> ErrorCategory(error.message),
     processingPhase |-> processingPhase,
     originalKey |-> key]

\* ---------------------------------------------------- checkForDuplicates

\* The listing prefix: "photo-" and the calendar day of the shot.
SearchPrefix(shotDate) ==
    << "photo", "-" >> \o ReplaceAll(SplitFirst(toISOString(shotDate), "T"), { ":", "." }, "-")

\* A verdict that never claims more than medium confidence.
VerdictMedium(reason, confidence, jsonKey, filesChecked) ==
    Some([isDuplicate |-> TRUE, reason |-> reason, confidence |-> "medium",
          existingFile |-> RemoveFirst(jsonKey, << ".", "json" >>),
          filesChecked |-> filesChecked])

Verdict(reason, confidence, jsonKey, filesChecked) ==
    Some([isDuplicate |-> TRUE, reason |-> reason, confidence |-> confidence,
          existingFile |-> RemoveFirst(jsonKey, << ".", "json" >>),
          filesChecked |-> filesChecked])

OrUnknown(o) == IF IsNull(o) \/ Val(o) = << >> THEN << "unknown" >> ELSE Val(o)

\* The body of the loop over jsonFiles for one parsed sidecar: the verdict
\* it returns, or Null when the loop goes on to the next candidate (also
\* when a missing field makes the comparison throw into the inner catch).
CompareCandidate(existingMetadata, jsonKey, fileSize, exif, camera, filesChecked) ==
    LET diff == existingMetadata.fileSize - fileSize
        absDiff == IF diff < 0 THEN 0 - diff ELSE diff
        bothExif == ~IsNull(exif) /\ ~IsNull(existingMetadata.exifData)
        existingTimestamp == Val(existingMetadata.exifData).dateTimeOriginal
        currentTimestamp ==
            IF IsNull(Val(exif).tags.DateTimeOriginal) THEN Null
            ELSE Some(toISOString(Val(Val(exif).tags.DateTimeOriginal)))
        sameTimestamp ==
            /\ bothExif
            /\ ~IsNull(existingTimestamp)
            /\ ~IsNull(currentTimestamp)
            /\ Val(existingTimestamp) = Val(currentTimestamp)
        sameMake ==
            toLowerCase(OrUnknown(Val(existingMetadata.exifData).make))
                = toLowerCase(OrUnknown(Val(exif).tags.Make))
        sameDimensions ==
            /\ ~IsNull(existingMetadata.originalDimensions)
            /\ ~IsNull(Val(exif).imageSize)
            /\ Val(existingMetadata.originalDimensions).width = Val(Val(exif).imageSize).width
            /\ Val(existingMetadata.originalDimensions).height = Val(Val(exif).imageSize).height
    IN  IF absDiff >= SizeTolerance THEN Null
        ELSE IF sameTimestamp /\ sameMake
        THEN IF sameDimensions
             THEN Verdict("exact_match_exif_timestamp_camera_dimensions", "high", jsonKey, filesChecked)
             ELSE Verdict("exact_match_exif_timestamp_camera", "high", jsonKey, filesChecked)
        ELSE IF IsNull(existingMetadata.camera) THEN Null
        ELSE IF toLowerCase(Val(existingMetadata.camera)) = toLowerCase(camera)
        THEN Verdict("size_camera_match_no_exif_comparison", "medium", jsonKey, filesChecked)
        ELSE Null


\* ------------------------------------------------------------- parseExif

\* parseExif: the parse raced against the timeout.  A parser exception and
\* the timeout both land in the catch, leaving exif = null, exifDate = null
\* and camera = "unknown".
parseExif(imageBuffer, timedOut) ==
    LET parsed == BodyExif(imageBuffer) IN
    IF timedOut \/ IsNull(parsed)
    THEN [exif |-> Null, exifDate |-> Null, camera |-> << "unknown" >>]
    ELSE [exif |-> parsed,
          exifDate |-> Val(parsed).tags.DateTimeOriginal,
          camera |-> OrUnknown(Val(parsed).tags.Make)]

\* ------------------------------------------------------------ the state

VARIABLES
    CONFIG,     \* the configuration read from the environment at load time
    store,      \* the objects of all buckets
    job,        \* per invocation: the handler's locals and where it stands
    clock,      \* index into Clock: the latest wall-clock reading
    flaky,      \* the calls the environment may fail in this behaviour
    retry,      \* one call of retryWithBackoff, followed attempt by attempt
    scan        \* one candidate of the duplicate scan and its verdict

vars == << CONFIG, store, job, clock, flaky, retry, scan >>

\* The calls of the handler that can fail: the source GetObject, the EXIF
\* parse race, the listing, a sidecar GetObject, the copy and delete of
\* handleDuplicateFile, the resize race, sharp's metadata probe, a PutObject.
Calls == { "download", "exif", "list", "sidecar", "resolve", "resize", "probe", "upload" }

JobIds == { 1, 2 }

\* new Date(): the clock has not gone back since the last reading.
Readings == clock..Len(Clock)

UploadSlot(st, attempt) == [st |-> st, attempt |-> attempt]

\* The handler's locals before its first statement.  pc "off" is an
\* invocation that is never made.
NewJob(pc, event) ==
    [pc |-> pc, event |-> event,
     key |-> << "unknown" >>, processingPhase |-> "initialization",
     sourceBucket |-> "", fileSize |-> Null, ext |-> << >>,
     targetBucket |-> "", attempt |-> 0,
     imageBuffer |-> GarbageBody, original |-> [ContentType |-> "", ContentLength |-> 0],
     exif |-> Null, exifDate |-> Null, camera |-> << "unknown" >>,
     baseName |-> << >>, shotDate |-> Clock[1],
     jsonFiles |-> << >>, filesChecked |-> 0, duplicateCheck |-> Null,
     duplicateKey |-> << >>, detectedAt |-> << >>, duplicateHandling |-> "",
     resized |-> FALSE,
     metadata |-> Null, uploads |-> [i \in 1..NumUploads |-> UploadSlot("none", 0)],
     ops |-> {}, result |-> Null]

Op(op, bucket, key) == [op |-> op, bucket |-> bucket, key |-> key]

\* The catch block of exports.handler: the handler returns handleError's value.
Fail(r, error) ==
    [r EXCEPT !.pc = "done", !.result = Some(handleError(error, r.processingPhase, r.key))]

StorageFault == Err("AccessDenied", MsgAccessDenied)

\* Leaving handleDuplicatesIfNeeded normally: step 5 of the handler.
GoProcess(r) ==
    [r EXCEPT !.pc = "process", !.processingPhase = "image_processing",
              !.jsonFiles = << >>, !.filesChecked = 0]

\* The end of handleDuplicatesIfNeeded's duplicate branch.
AfterDuplicate(r) ==
    IF CONFIG.DUPLICATE_ACTION # << "replace" >>
    THEN Fail(r, Err("Error", MsgDuplicateDetected))
    ELSE GoProcess(r)

\* --------------------------------------------------------------- actions

\* Steps 1 of the handler: validateEvent, resolveBucketMapping.
Validate(j) ==
    /\ job[j].pc = "start"
    /\ LET v == validateEvent(job[j].event) IN
       IF v.threw THEN job' = [job EXCEPT ![j] = Fail(job[j], v.error)]
       ELSE LET r1 == [job[j] EXCEPT !.key = v.value.key,
                                     !.sourceBucket = v.value.sourceBucket,
                                     !.fileSize = v.value.fileSize,
                                     !.ext = v.value.ext,
                                     !.processingPhase = "validation"]
                m == resolveBucketMapping(CONFIG, r1.sourceBucket, r1.key, r1.fileSize)
            IN  IF m.threw THEN job' = [job EXCEPT ![j] = Fail(r1, m.error)]
                ELSE job' = [job EXCEPT ![j] =
                        [r1 EXCEPT !.targetBucket = m.value.targetBucket,
                                   !.processingPhase = "download",
                                   !.pc = "download", !.attempt = 1]]
    /\ UNCHANGED << CONFIG, store, clock, flaky, retry, scan >>

\* A download that is tried once more than the attempt limit.
DownloadOnceMore(j, ok) ==
    /\ job[j].pc = "download"
    /\ LET r == [job[j] EXCEPT !.ops = @ \cup { Op("get", job[j].sourceBucket, job[j].key) }]
           present == Exists(store, r.sourceBucket, r.key)
       IN  IF present /\ ok
           THEN LET o == Lookup(store, r.sourceBucket, r.key) IN
                job' = [job EXCEPT ![j] =
                       [r EXCEPT !.imageBuffer = o.body,
                                 !.original = [ContentType |-> o.ContentType,
                                               ContentLength |-> BodySize(o.body)],
                                 !.processingPhase = "exif_parsing",
                                 !.attempt = 0,
                                 !.pc = "exif"]]
           ELSE /\ IF present THEN "download" \in flaky ELSE ok
                /\ LET error == IF present THEN StorageFault ELSE Err("NoSuchKey", MsgNoSuchKey) IN
                   IF r.attempt = MaxRetries + 1
                   THEN job' = [job EXCEPT ![j] = Fail(r, error)]
                   ELSE job' = [job EXCEPT ![j] = [r EXCEPT !.attempt = @ + 1]]
    /\ UNCHANGED << CONFIG, store, clock, flaky, retry, scan >>

\* One attempt of downloadImage's GetObject under retryWithBackoff.
Download(j, ok) ==
    /\ job[j].pc = "download"
    /\ LET r == [job[j] EXCEPT !.ops = @ \cup { Op("get", job[j].sourceBucket, job[j].key) }]
           present == Exists(store, r.sourceBucket, r.key)
       IN  IF present /\ ok
           THEN LET o == Lookup(store, r.sourceBucket, r.key) IN
                job' = [job EXCEPT ![j] =
                       [r EXCEPT !.imageBuffer = o.body,
                                 !.original = [ContentType |-> o.ContentType,
                                               ContentLength |-> BodySize(o.body)],
                                 !.processingPhase = "exif_parsing",
                                 !.attempt = 0,
                                 !.pc = "exif"]]
           ELSE /\ IF present THEN "download" \in flaky ELSE ok
                /\ LET error == IF present THEN StorageFault ELSE Err("NoSuchKey", MsgNoSuchKey) IN
                   IF r.attempt = MaxRetries
                   THEN job' = [job EXCEPT ![j] = Fail(r, error)]
                   ELSE job' = [job EXCEPT ![j] = [r EXCEPT !.attempt = @ + 1]]
    /\ UNCHANGED << CONFIG, store, clock, flaky, retry, scan >>

\* A step 3 that lets the failure of the parse reach the handler's catch.
ParseExifSurfacing(j, ok, t) ==
    /\ job[j].pc = "exif"
    /\ ok \/ "exif" \in flaky
    /\ clock' = t
    /\ LET p == parseExif(job[j].imageBuffer, ~ok)
           g == generateBaseName(p.exifDate, p.camera, Clock[t])
           r == [job[j] EXCEPT !.exif = p.exif, !.exifDate = p.exifDate, !.camera = p.camera,
                               !.baseName = g.baseName, !.shotDate = g.shotDate]
       IN  /\ IsNull(p.exifDate) \/ t = clock
           /\ job' = [job EXCEPT ![j] =
                  IF IsNull(p.exif) THEN Fail(job[j], Err("Error", MsgExifTimeout))
                  ELSE IF CONFIG.CHECK_DUPLICATES THEN [r EXCEPT !.pc = "dupList"]
                  ELSE GoProcess(r)]
    /\ UNCHANGED << CONFIG, store, flaky, retry, scan >>

\* A handler that starts the resizes before handleDuplicatesIfNeeded.
ParseExifResizingFirst(j, ok, t) ==
    /\ job[j].pc = "exif"
    /\ ok \/ "exif" \in flaky
    /\ clock' = t
    /\ LET p == parseExif(job[j].imageBuffer, ~ok)
           g == generateBaseName(p.exifDate, p.camera, Clock[t])
           r == [job[j] EXCEPT !.exif = p.exif, !.exifDate = p.exifDate, !.camera = p.camera,
                               !.baseName = g.baseName, !.shotDate = g.shotDate,
                               !.resized = TRUE]
       IN  /\ IsNull(p.exifDate) \/ t = clock
           /\ job' = [job EXCEPT ![j] =
                  IF CONFIG.CHECK_DUPLICATES THEN [r EXCEPT !.pc = "dupList"] ELSE GoProcess(r)]
    /\ UNCHANGED << CONFIG, store, flaky, retry, scan >>

\* Steps 3 and 4 up to the first await of handleDuplicatesIfNeeded:
\* parseExif, generateBaseName, the CHECK_DUPLICATES test.
ParseExif(j, ok, t) ==
    /\ job[j].pc = "exif"
    /\ ok \/ "exif" \in flaky
    /\ clock' = t
    /\ LET p == parseExif(job[j].imageBuffer, ~ok)
           g == generateBaseName(p.exifDate, p.camera, Clock[t])
           r == [job[j] EXCEPT !.exif = p.exif, !.exifDate = p.exifDate, !.camera = p.camera,
                               !.baseName = g.baseName, !.shotDate = g.shotDate]
       IN  \* the clock is read only when the image carries no capture date
           /\ IsNull(p.exifDate) \/ t = clock
           /\ job' = [job EXCEPT ![j] =
                  IF CONFIG.CHECK_DUPLICATES THEN [r EXCEPT !.pc = "dupList"] ELSE GoProcess(r)]
    /\ UNCHANGED << CONFIG, store, flaky, retry, scan >>


\* A listing whose failure is not caught.
DupListFailing(j, ok) ==
    /\ job[j].pc = "dupList"
    /\ ok \/ "list" \in flaky
    /\ LET prefix == SearchPrefix(job[j].shotDate)
           r == [job[j] EXCEPT !.ops = @ \cup { Op("list", job[j].targetBucket, prefix) }]
           contents == ListedKeys({ o.key : o \in { x \in store : x.bucket = r.targetBucket
                                                                   /\ startsWith(x.key, prefix) } })
           jsonFiles == SortKeys({ k \in contents : endsWith(k, << ".", "json" >>) })
       IN  job' = [job EXCEPT ![j] =
               IF ~ok THEN Fail(r, StorageFault)
               ELSE IF jsonFiles = << >> THEN GoProcess(r)
               ELSE [r EXCEPT !.jsonFiles = jsonFiles, !.filesChecked = Len(jsonFiles),
                              !.pc = "dupScan"]]
    /\ UNCHANGED << CONFIG, store, clock, flaky, retry, scan >>

\* checkForDuplicates up to the loop: the ListObjectsV2 call (not retried).
\* A failed listing lands in the outer catch: not a duplicate.
DupList(j, ok) ==
    /\ job[j].pc = "dupList"
    /\ ok \/ "list" \in flaky
    /\ LET prefix == SearchPrefix(job[j].shotDate)
           r == [job[j] EXCEPT !.ops = @ \cup { Op("list", job[j].targetBucket, prefix) }]
           contents == ListedKeys({ o.key : o \in { x \in store : x.bucket = r.targetBucket
                                                                   /\ startsWith(x.key, prefix) } })
           jsonFiles == SortKeys({ k \in contents : endsWith(k, << ".", "json" >>) })
       IN  job' = [job EXCEPT ![j] =
               IF ~ok \/ jsonFiles = << >> THEN GoProcess(r)
               ELSE [r EXCEPT !.jsonFiles = jsonFiles, !.filesChecked = Len(jsonFiles),
                              !.pc = "dupScan"]]
    /\ UNCHANGED << CONFIG, store, clock, flaky, retry, scan >>

\* Date.now() read at the top of handleDuplicateFile, as the quarantine key spells it.
DuplicateTimestamp(now) ==
    SplitFirst(ReplaceFirst(ReplaceAll(toISOString(now), { ":", "." }, "-"), "T", "_"), ".")

\* One turn of the loop over jsonFiles: fetch the sidecar (not retried),
\* parse it, compare.  A failure of the fetch or of the parse is the inner
\* catch: continue.  A verdict enters handleDuplicateFile.
DupScan(j, ok, t) ==
    /\ job[j].pc = "dupScan"
    /\ ok \/ "sidecar" \in flaky
    /\ clock' = t
    /\ LET jsonKey == Head(job[j].jsonFiles)
           r == [job[j] EXCEPT !.ops = @ \cup { Op("get", job[j].targetBucket, jsonKey) },
                               !.jsonFiles = Tail(@)]
           readable == /\ ok
                       /\ Exists(store, r.targetBucket, jsonKey)
                       /\ Lookup(store, r.targetBucket, jsonKey).body.kind = "json"
           verdict == IF readable
                      THEN CompareCandidate(Val(Lookup(store, r.targetBucket, jsonKey).body.meta),
                                            jsonKey, r.original.ContentLength, r.exif, r.camera,
                                            r.filesChecked)
                      ELSE Null
       IN  \* the clock is read only on entering handleDuplicateFile
           /\ ~IsNull(verdict) \/ t = clock
           /\ job' = [job EXCEPT ![j] =
               IF ~IsNull(verdict)
               THEN [r EXCEPT !.duplicateCheck = verdict,
                              !.duplicateKey = CONFIG.DUPLICATES_PREFIX \o DuplicateTimestamp(Clock[t])
                                               \o << "-" >> \o SplitPop(r.key, "/"),
                              !.detectedAt = toISOString(Clock[t]),
                              !.pc = "dupResolve"]
               ELSE IF r.jsonFiles = << >> THEN GoProcess(r)
               ELSE r]
    /\ UNCHANGED << CONFIG, store, flaky, retry, scan >>

\* A CopyObject that carries no Metadata: the copy keeps no explanation.
DuplicateTagsNone(r) == Null

\* The tags the quarantine copy carries.
DuplicateTags(r) ==
    Some([originalKey |-> r.key, originalBucket |-> r.sourceBucket,
          duplicateReason |-> Val(r.duplicateCheck).reason,
          duplicateConfidence |-> Val(r.duplicateCheck).confidence,
          existingFile |-> Val(r.duplicateCheck).existingFile,
          detectedAt |-> r.detectedAt])

\* The branch of handleDuplicateFile's switch.
Disposition(duplicateAction) ==
    LET a == toLowerCase(duplicateAction) IN
    IF a = << "replace" >> THEN "replace"
    ELSE IF a = << "delete" >> THEN "delete"
    ELSE IF a = << "move" >> THEN "move"
    ELSE "keep"

\* A handleDuplicateFile whose move branch deletes the source object before
\* it has copied it.
DupResolveDeletingFirst(j, ok) ==
    /\ job[j].pc = "dupResolve"
    /\ ok \/ "resolve" \in flaky
    /\ LET r == job[j]
           d == Disposition(CONFIG.DUPLICATE_ACTION)
       IN  CASE d \in { "replace", "delete" } ->
                  /\ store' = IF ok THEN StoreDelete(store, r.sourceBucket, r.key) ELSE store
                  /\ job' = [job EXCEPT ![j] = AfterDuplicate(
                          [r EXCEPT !.ops = @ \cup { Op("delete", r.sourceBucket, r.key) },
                                    !.duplicateHandling =
                                        IF ~ok THEN "error"
                                        ELSE IF d = "replace" THEN "replace" ELSE "deleted"])]
             [] d = "move" ->
                  LET r1 == [r EXCEPT !.ops = @ \cup { Op("delete", r.sourceBucket, r.key) }] IN
                  /\ store' = IF ok THEN StoreDelete(store, r.sourceBucket, r.key) ELSE store
                  /\ job' = [job EXCEPT ![j] =
                          IF ok THEN [r1 EXCEPT !.pc = "dupMoveDelete"]
                          ELSE AfterDuplicate([r1 EXCEPT !.duplicateHandling = "error"])]
             [] d = "keep" ->
                  /\ ok
                  /\ store' = store
                  /\ job' = [job EXCEPT ![j] = AfterDuplicate([r EXCEPT !.duplicateHandling = "kept"])]
    /\ UNCHANGED << CONFIG, clock, flaky, retry, scan >>

\* handleDuplicateFile's first storage call (none of them retried; a failure
\* is caught inside handleDuplicateFile and the function returns normally).
DupResolve(j, ok) ==
    /\ job[j].pc = "dupResolve"
    /\ ok \/ "resolve" \in flaky
    /\ LET r == job[j]
           d == Disposition(CONFIG.DUPLICATE_ACTION)
       IN  CASE d \in { "replace", "delete" } ->
                  /\ store' = IF ok THEN StoreDelete(store, r.sourceBucket, r.key) ELSE store
                  /\ job' = [job EXCEPT ![j] = AfterDuplicate(
                          [r EXCEPT !.ops = @ \cup { Op("delete", r.sourceBucket, r.key) },
                                    !.duplicateHandling =
                                        IF ~ok THEN "error"
                                        ELSE IF d = "replace" THEN "replace" ELSE "deleted"])]
             [] d = "move" ->
                  LET r1 == [r EXCEPT !.ops = @ \cup { Op("copy", r.targetBucket, r.duplicateKey) }]
                      copied == ok /\ Exists(store, r.sourceBucket, r.key)
                  IN  /\ store' = IF copied
                                  THEN StorePut(store,
                                         Obj(r.targetBucket, r.duplicateKey,
                                             Lookup(store, r.sourceBucket, r.key).body,
                                             IF r.original.ContentType = "" THEN "image/jpeg"
                                             ELSE r.original.ContentType,
                                             DuplicateTags(r), j))
                                  ELSE store
                      /\ job' = [job EXCEPT ![j] =
                              IF copied THEN [r1 EXCEPT !.pc = "dupMoveDelete"]
                              ELSE AfterDuplicate([r1 EXCEPT !.duplicateHandling = "error"])]
             [] d = "keep" ->
                  /\ ok
                  /\ store' = store
                  /\ job' = [job EXCEPT ![j] = AfterDuplicate([r EXCEPT !.duplicateHandling = "kept"])]
    /\ UNCHANGED << CONFIG, clock, flaky, retry, scan >>

\* The move branch's DeleteObject after the copy.
DupMoveDelete(j, ok) ==
    /\ job[j].pc = "dupMoveDelete"
    /\ ok \/ "resolve" \in flaky
    /\ store' = IF ok THEN StoreDelete(store, job[j].sourceBucket, job[j].key) ELSE store
    /\ job' = [job EXCEPT ![j] = AfterDuplicate(
            [job[j] EXCEPT !.ops = @ \cup { Op("delete", job[j].sourceBucket, job[j].key) },
                           !.duplicateHandling = IF ok THEN "moved" ELSE "error"])]
    /\ UNCHANGED << CONFIG, clock, flaky, retry, scan >>

\* processImageVariants: the four resizes raced against the timeout.
Process(j, outcome) ==
    /\ job[j].pc = "process"
    /\ outcome = "ok" \/ "resize" \in flaky
    /\ LET r == [job[j] EXCEPT !.resized = TRUE] IN
       job' = [job EXCEPT ![j] =
           CASE outcome = "ok"      -> [r EXCEPT !.pc = "build"]
             [] outcome = "timeout" -> Fail(r, Err("Error", MsgProcessingTimeout))
             [] outcome = "error"   -> Fail(r, Err("Error", MsgSharpInput))]
    /\ UNCHANGED << CONFIG, store, clock, flaky, retry, scan >>

\* buildMetadata (its sharp probe can fail), then uploadAllFiles up to its
\* await: all six PutObject calls are issued.
Build(j, ok, t) ==
    /\ job[j].pc = "build"
    /\ clock' = t
    /\ ok \/ ("probe" \in flaky /\ t = clock)
    /\ LET r == job[j]
           metadata == buildMetadata(r.key, r.baseName, r.shotDate, r.camera, r.original,
                                     r.imageBuffer, r.exif, r.ext, Clock[t])
           cmds == UploadCommands(r.imageBuffer, r.original, metadata.photoFolder,
                                  r.baseName, r.ext, metadata)
       IN  job' = [job EXCEPT ![j] =
               IF ~ok THEN Fail(r, Err("Error", MsgSharpInput))
               ELSE [r EXCEPT !.metadata = Some(metadata),
                              !.processingPhase = "upload",
                              !.uploads = [i \in 1..NumUploads |-> UploadSlot("inflight", 1)],
                              !.ops = @ \cup { Op("put", r.targetBucket, cmds[i].Key)
                                               : i \in 1..NumUploads },
                              !.pc = "upload"]]
    /\ UNCHANGED << CONFIG, store, flaky, retry, scan >>

\* The commands of a job that has reached uploadAllFiles.
JobCommands(r) ==
    UploadCommands(r.imageBuffer, r.original, Val(r.metadata).photoFolder,
                   r.baseName, r.ext, Val(r.metadata))

\* The uploads of a job that have failed at least once.
Disturbed(r) == { k \in 1..NumUploads : r.uploads[k].attempt > 1 \/ r.uploads[k].st = "failed" }

\* An upload whose terminal failure removes what the job has written.
PutAttemptRollingBack(j, i, ok) ==
    /\ job[j].uploads[i].st = "inflight"
    /\ ok \/ ("upload" \in flaky /\ Cardinality(Disturbed(job[j]) \cup { i }) <= MaxFlakyUploads)
    /\ LET r == job[j]
           cmd == JobCommands(r)[i]
       IN  IF ok
           THEN /\ store' = StorePut(store, Obj(r.targetBucket, cmd.Key, cmd.Body,
                                                cmd.ContentType, Null, j))
                /\ LET r1 == [r EXCEPT !.uploads[i].st = "done"] IN
                   job' = [job EXCEPT ![j] =
                       IF r1.pc = "upload" /\ \A k \in 1..NumUploads : r1.uploads[k].st = "done"
                       THEN [r1 EXCEPT !.pc = "done",
                                       !.result = Some(buildSuccessResponse(
                                                    r1.baseName, r1.key, Val(r1.metadata)))]
                       ELSE r1]
           ELSE /\ store' = IF r.uploads[i].attempt < MaxRetries THEN store
                            ELSE { o \in store : ~(o.bucket = r.targetBucket /\ o.by = j) }
                /\ job' = [job EXCEPT ![j] =
                       IF r.uploads[i].attempt < MaxRetries
                       THEN [r EXCEPT !.uploads[i].attempt = @ + 1]
                       ELSE LET r1 == [r EXCEPT !.uploads[i].st = "failed"] IN
                            IF r1.pc = "upload" THEN Fail(r1, StorageFault) ELSE r1]
    /\ UNCHANGED << CONFIG, clock, flaky, retry, scan >>

\* One attempt of one upload under retryWithBackoff, and what Promise.all
\* makes of it: the first upload to exhaust its attempts rejects the join
\* (the handler returns the error while the other uploads go on); the last
\* one to succeed resolves it.
PutAttempt(j, i, ok) ==
    /\ job[j].uploads[i].st = "inflight"
    /\ ok \/ ("upload" \in flaky /\ Cardinality(Disturbed(job[j]) \cup { i }) <= MaxFlakyUploads)
    /\ LET r == job[j]
           cmd == JobCommands(r)[i]
       IN  IF ok
           THEN /\ store' = StorePut(store, Obj(r.targetBucket, cmd.Key, cmd.Body,
                                                cmd.ContentType, Null, j))
                /\ LET r1 == [r EXCEPT !.uploads[i].st = "done"] IN
                   job' = [job EXCEPT ![j] =
                       IF r1.pc = "upload" /\ \A k \in 1..NumUploads : r1.uploads[k].st = "done"
                       THEN [r1 EXCEPT !.pc = "done",
                                       !.result = Some(buildSuccessResponse(
                                                    r1.baseName, r1.key, Val(r1.metadata)))]
                       ELSE r1]
           ELSE /\ store' = store
                /\ job' = [job EXCEPT ![j] =
                       IF r.uploads[i].attempt < MaxRetries
                       THEN [r EXCEPT !.uploads[i].attempt = @ + 1]
                       ELSE LET r1 == [r EXCEPT !.uploads[i].st = "failed"] IN
                            IF r1.pc = "upload" THEN Fail(r1, StorageFault) ELSE r1]
    /\ UNCHANGED << CONFIG, clock, flaky, retry, scan >>


\* ------------------------------------------------------ retryWithBackoff

\* The largest attempt limit a call of retryWithBackoff is followed with.
MaxAttemptLimit == 4

\* Math.random() * 1000: a sample of [0, 1000).
RetryJitters == { 0, 500, 999 }

\* The baseDelay arguments: the 1000 ms of every call site (and the
\* default), and a shorter one.
BaseDelays == { 1000, 500 }

\* What one call of fn does: resolve with a value, or reject with an error.
FnOutcomes ==
    { Returned(<< "body" >>), Threw(StorageFault), Threw(Err("NoSuchKey", MsgNoSuchKey)) }

\* A delay that does not grow with the attempt.
BackoffFlat(baseDelay, attempt, jitter) == baseDelay + jitter

\* baseDelay * Math.pow(2, attempt - 1) + Math.random() * 1000
Backoff(baseDelay, attempt, jitter) == baseDelay * 2^(attempt - 1) + jitter

\* A loop that gives up one attempt early.
LastAttemptEarly(attempt, maxRetries) == attempt >= maxRetries - 1

\* if (attempt === maxRetries) throw error
LastAttempt(attempt, maxRetries) == attempt = maxRetries

\* No call of retryWithBackoff is being followed.
NoRetry ==
    [pc |-> "none", maxRetries |-> 0, baseDelay |-> 0, attempt |-> 0, calls |-> 0,
     thrown |-> << >>, pending |-> 0, delays |-> << >>, outcome |-> Null]

\* retryWithBackoff(fn, maxRetries, baseDelay) at the top of its loop.
NewRetry(maxRetries, baseDelay) ==
    [NoRetry EXCEPT !.pc = "calling", !.maxRetries = maxRetries, !.baseDelay = baseDelay,
                    !.attempt = 1]

\* One turn of the loop up to its await: fn is called; its value is
\* returned, or its error is thrown on the last attempt, or the timer of the
\* backoff is set.
RetryCall(outcome, jitter) ==
    /\ retry.pc = "calling"
    /\ LET r == [retry EXCEPT !.calls = @ + 1] IN
       retry' = IF ~outcome.threw
                THEN [r EXCEPT !.pc = "returned", !.outcome = Some(outcome)]
                ELSE LET r1 == [r EXCEPT !.thrown = Append(@, outcome.error)] IN
                     IF LastAttempt(r.attempt, r.maxRetries)
                     THEN [r1 EXCEPT !.pc = "threw", !.outcome = Some(Threw(outcome.error))]
                     ELSE [r1 EXCEPT !.pc = "sleeping",
                                     !.pending = Backoff(r.baseDelay, r.attempt, jitter)]
    /\ UNCHANGED << CONFIG, store, job, clock, flaky, scan >>

\* The timer fires: the loop goes round.
RetrySleep ==
    /\ retry.pc = "sleeping"
    /\ retry' = [retry EXCEPT !.delays = Append(@, retry.pending), !.pending = 0,
                              !.attempt = @ + 1, !.pc = "calling"]
    /\ UNCHANGED << CONFIG, store, job, clock, flaky, scan >>

\* ------------------------------------ one candidate of the duplicate scan

\* A parsed sidecar, as far as the comparison reads it.
ScanRecord(fileSize, exifData, originalDimensions, camera) ==
    [fileSize |-> fileSize, exifData |-> exifData,
     originalDimensions |-> originalDimensions, camera |-> camera]

\* The sidecars a candidate is drawn from: sizes at and around the
\* tolerance, with and without exifData, dateTimeOriginal, make, dimensions.
ScanRecords ==
    { ScanRecord(size, exifData, dims, camera) :
        size \in { 500000, 500200, 500000 + SizeTolerance - 1, 500000 + SizeTolerance, 800000 },
        exifData \in { Null }
            \cup { Some([make |-> make, model |-> Null, dateTimeOriginal |-> date]) :
                     make \in { Null, Some(CameraCanon), Some(<< "CANON" >>), Some(CameraNikon) },
                     date \in { Null, Some(toISOString(Day1Morning)), Some(toISOString(Day1Noon)) } },
        dims \in { Null, Some([width |-> 4000, height |-> 3000, format |-> << "jpg" >>]),
                   Some([width |-> 3000, height |-> 4000, format |-> << "jpg" >>]) },
        camera \in { Null, Some(CameraCanon), Some(<< "canon" >>), Some(CameraNikon) } }

\* No comparison is being followed.
NoScan ==
    [pc |-> "none", existingMetadata |-> ScanRecord(0, Null, Null, Null), photo |-> "",
     verdict |-> Null]

ScanKey == << "photo", "-", "2025", "-", "09", "-", "20", "/", "record", ".", "json" >>

\* The body of the loop for one candidate and one incoming photograph.
Compare ==
    /\ scan.pc = "comparing"
    /\ LET p == parseExif(ImageBody(scan.photo, "original"), FALSE) IN
       scan' = [scan EXCEPT !.pc = "compared",
                            !.verdict = CompareCandidate(scan.existingMetadata, ScanKey,
                                                         Photo(scan.photo).size, p.exif, p.camera, 1)]
    /\ UNCHANGED << CONFIG, store, job, clock, flaky, retry >>

\* ---------------------------------------------------- the initial states

Ingress == "ingress-1"

Processed == "processed-1"

Key(dir, stem, ext) == dir \o << stem, ".", ext >>

S3Record(bucket, key, size) ==
    [s3 |-> Some([bucket |-> Some([name |-> bucket]),
                  object |-> Some([key |-> key, size |-> size])])]

EventOf(records) == Some([Records |-> records])

\* Trigger notifications that reach the pipeline.
PipelineEvents ==
    { EventOf(<< S3Record(Ingress, Some(Key(<< "photos", "/" >>, "DSC003344", "JPG")), 500000) >>),
      EventOf(<< S3Record(Ingress, Some(Key(<< >>, "vacation", "png")), 0) >>),
      EventOf(<< S3Record(Ingress, Some(<< "my", "+", "photo", ".", "jpeg" >>), 500000) >>),
      \* a key inside an output folder of an earlier job
      EventOf(<< S3Record(Ingress, Some(<< "photo", "-", "2025", "-", "09", "-", "20", "_",
                                            "03", "-", "23", "-", "33", "-", "000", "Z", "-",
                                            "Canon", "/", "_", "large", ".", "jpg" >>), 50000) >>),
      \* a batch of two records
      EventOf(<< S3Record(Ingress, Some(Key(<< >>, "first", "jpg")), 500000),
                 S3Record(Ingress, Some(Key(<< >>, "second", "jpg")), 500000) >>),
      \* a batch of three: a good record, a malformed one, one no check would pass
      EventOf(<< S3Record(Ingress, Some(Key(<< >>, "first", "jpg")), 500000),
                 [s3 |-> Null],
                 S3Record("other-bucket", Some(Key(<< "duplicates", "/" >>, "notes", "txt")),
                          DefaultMaxFileSize + 1) >>) }

\* Trigger notifications that validation turns away, and malformed ones.
RejectedEvents ==
    { Null,
      EventOf(<< >>),
      EventOf(<< [s3 |-> Null] >>),
      EventOf(<< [s3 |-> Some([bucket |-> Some([name |-> Ingress]), object |-> Null])] >>),
      EventOf(<< S3Record(Ingress, Null, 500000) >>),
      EventOf(<< S3Record(Ingress, Some(<< "bad", "%", ".", "jpg" >>), 500000) >>),
      EventOf(<< S3Record(Ingress, Some(Key(<< >>, "anim", "GIF")), 500000) >>),
      EventOf(<< S3Record(Ingress, Some(<< "README" >>), 500000) >>),
      EventOf(<< S3Record(Ingress, Some(<< "trailing", "." >>), 500000) >>),
      EventOf(<< S3Record(Ingress, Some(Key(<< "duplicates", "/" >>, "old", "jpg")), 500000) >>),
      EventOf(<< S3Record(Ingress, Some(Key(<< >>, "huge", "jpg")), DefaultMaxFileSize + 1) >>),
      EventOf(<< S3Record("other-bucket", Some(Key(<< >>, "stray", "jpg")), 500000) >>),
      EventOf(<< S3Record("other-bucket", Some(Key(<< >>, "clip", "GIF")), 500000) >>),
      EventOf(<< S3Record("other-bucket", Some(Key(<< >>, "vast", "jpg")), DefaultMaxFileSize + 1) >>),
      EventOf(<< S3Record(Ingress, Some(Key(<< >>, "film", "GIF")), DefaultMaxFileSize + 1) >>),
      EventOf(<< S3Record(Ingress, Some(Key(<< >>, "edge", "jpg")), DefaultMaxFileSize) >>) }

Events == PipelineEvents \cup RejectedEvents

NoMapping == [b \in {} |-> [processed |-> Null]]

PairMapping == [b \in { Ingress } |-> [processed |-> Some(Processed)]]

Config(allowed, mappings, check, action) ==
    [ALLOWED_SOURCE_BUCKETS |-> allowed,
     BUCKET_MAPPINGS |-> mappings,
     CHECK_DUPLICATES |-> check,
     DUPLICATE_ACTION |-> action,
     DUPLICATES_PREFIX |-> << "duplicates", "/" >>,
     MAX_FILE_SIZE |-> DefaultMaxFileSize,
     \* DELETE_ORIGINAL of the Lambda's environment, as the Terraform module
     \* sets it; the handler's CONFIG has no key for it and nothing reads it
     DELETE_ORIGINAL |-> FALSE]

\* The deployments of the model.  DUPLICATE_ACTION is free text in the
\* environment: "Replace" is a value an operator can set.
DefaultConfig == Config(Null, NoMapping, TRUE, << "replace" >>)

AllowListConfig == Config(Some({ Ingress }), PairMapping, TRUE, << "replace" >>)

\* The default deployment with delete_original = true.
DeleteOriginalConfig == [DefaultConfig EXCEPT !.DELETE_ORIGINAL = TRUE]

DispositionConfig(a) == Config(Null, NoMapping, TRUE, << a >>)

Dispositions == { "replace", "delete", "move", "keep", "Replace" }

\* The objects a fault-free run of this handler leaves for a photograph
\* uploaded as `key` and processed at time `now`.
ProcessedFolder(targetBucket, key, ext, photo, now) ==
    LET imageBuffer == ImageBody(photo, "original")
        original == [ContentType |-> "image/jpeg", ContentLength |-> BodySize(imageBuffer)]
        p == parseExif(imageBuffer, FALSE)
        g == generateBaseName(p.exifDate, p.camera, now)
        metadata == buildMetadata(key, g.baseName, g.shotDate, p.camera, original,
                                  imageBuffer, p.exif, ext, now)
        cmds == UploadCommands(imageBuffer, original, metadata.photoFolder, g.baseName, ext, metadata)
    IN  { Obj(targetBucket, cmds[i].Key, cmds[i].Body, cmds[i].ContentType, Null, 0)
          : i \in 1..NumUploads }

\* A sidecar as the earlier releases and TERRAFORM.md spell it: exifData
\* carries dateTimeOriginal as an ISO string.
LegacySidecar(targetBucket, photo) ==
    LET o == CHOOSE x \in ProcessedFolder(targetBucket, Key(<< >>, "IMG_0001", "jpg"),
                                          << "jpg" >>, photo, Clock[1]) : x.body.kind = "json"
        meta == Val(o.body.meta)
    IN  [o EXCEPT !.body = JsonBody(
            [meta EXCEPT !.exifData = Some([Val(@) EXCEPT !.dateTimeOriginal =
                                                       Some(meta.timestamp)])])]


MainEvent ==
    EventOf(<< S3Record(Ingress, Some(Key(<< "photos", "/" >>, "DSC003344", "JPG")), 500000) >>)

\* What the destination already holds when the invocation starts.
PriorContents(targetBucket, prior) ==
    LET earlier == Key(<< >>, "IMG_0001", "jpg")
        folder(photo) == ProcessedFolder(targetBucket, earlier, << "jpg" >>, photo, Clock[1])
    IN  CASE prior = "none"    -> {}
          [] prior = "canonA"  -> folder("canonA")
          [] prior = "plainD"  -> folder("plainD")
          [] prior = "legacy"  ->
                 { o \in folder("canonA") : o.body.kind # "json" }
                     \cup { LegacySidecar(targetBucket, "canonA") }
          [] prior = "crowd"   ->
                 \* three candidates in listing order: one too far in size,
                 \* one this handler wrote, one with a capture timestamp
                 folder("canonFar") \cup folder("canonA")
                     \cup { LegacySidecar(targetBucket, "canonB") }
          [] prior = "garbled" ->
                 { IF o.body.kind = "json" THEN [o EXCEPT !.body = GarbageBody] ELSE o
                   : o \in folder("canonA") }

\* The objects uploaded under the keys of the event's well-formed records.
SourceObjects(event, photo) ==
    IF IsNull(event) \/ photo = "" THEN {}
    ELSE { Obj(Val(Val(rec.s3).bucket).name, DecodeKey(Val(Val(Val(rec.s3).object).key)).value,
               ImageBody(photo, "original"), "image/jpeg", Null, 0)
           : rec \in { Val(event).Records[i] : i \in
                 { k \in DOMAIN Val(event).Records :
                     LET x == Val(event).Records[k] IN
                     /\ ~IsNull(x.s3)
                     /\ ~IsNull(Val(x.s3).bucket)
                     /\ ~IsNull(Val(x.s3).object)
                     /\ ~IsNull(Val(Val(x.s3).object).key)
                     /\ ~DecodeKey(Val(Val(Val(x.s3).object).key)).threw } } }

\* The bucket the deployment routes a source bucket to.
TargetOf(config, sourceBucket) ==
    IF sourceBucket \in DOMAIN config.BUCKET_MAPPINGS
       /\ ~IsNull(config.BUCKET_MAPPINGS[sourceBucket].processed)
    THEN Val(config.BUCKET_MAPPINGS[sourceBucket].processed)
    ELSE sourceBucket

Scenario(config, event, photo, prior, mayFail) ==
    [config |-> config, event |-> event, photo |-> photo, prior |-> prior, flaky |-> mayFail]

\* Every trigger, the source object in place and the destination empty.
ValidationScenarios ==
    { Scenario(DefaultConfig, e, "canonA", "none", {}) : e \in Events }
    \cup { Scenario(AllowListConfig, e, "canonA", "none", {}) : e \in RejectedEvents \cup { MainEvent } }

\* The main trigger against every duplicate disposition, with no failing
\* call: what is uploaded ("" : the object is gone before the handler reads
\* it) and what the destination already holds.
DuplicateScenarios ==
    { Scenario(DispositionConfig(a), MainEvent, photo, "canonA", {}) :
        a \in Dispositions, photo \in { "canonA", "canonB" } }
    \cup { Scenario(DefaultConfig, MainEvent, x[1], x[2], {}) :
             x \in { << "plainD", "plainD" >>, << "nikonC", "canonA" >>, << "canonA", "legacy" >>,
                     << "canonB", "legacy" >>, << "canonA", "garbled" >>, << "canonB", "garbled" >>,
                     << "canonB", "crowd" >>, << "canonFar", "crowd" >>,
                     << "", "none" >> } }
    \cup { Scenario(Config(Null, PairMapping, TRUE, << a >>), MainEvent, "canonA", "canonA", {}) :
             a \in { "replace", "move" } }
    \cup { Scenario(Config(Null, PairMapping, FALSE, << "replace" >>), MainEvent, "canonA", "canonA", {}),
           Scenario(DispositionConfig("keep"), MainEvent, "nikonC", "canonA", {}),
           Scenario(DeleteOriginalConfig, MainEvent, "canonA", "none", {}) }

\* The main trigger with every call allowed to fail.
FaultScenarios ==
    { Scenario(DispositionConfig(a), MainEvent, "canonA", "canonA", Calls) : a \in { "replace", "move" } }
    \cup { Scenario(DefaultConfig, MainEvent, "plainD", "none", Calls) }

Scenarios == ValidationScenarios \cup DuplicateScenarios \cup FaultScenarios

InitWith(scenarios) ==
    /\ clock = 1
    /\ \E s \in scenarios :
         /\ CONFIG = s.config
         /\ flaky = s.flaky
         /\ job = [j \in JobIds |-> IF j = 1 THEN NewJob("start", s.event)
                                    ELSE NewJob("off", Null)]
         /\ store = SourceObjects(s.event, s.photo)
                       \cup PriorContents(TargetOf(s.config, Ingress), s.prior)
    /\ retry = NoRetry
    /\ scan = NoScan

Init == InitWith(Scenarios)

Step(j) ==
    \/ Validate(j)
    \/ \E ok \in BOOLEAN : Download(j, ok)
    \/ \E ok \in BOOLEAN, t \in Readings : ParseExif(j, ok, t)
    \/ \E ok \in BOOLEAN : DupList(j, ok)
    \/ \E ok \in BOOLEAN, t \in Readings : DupScan(j, ok, t)
    \/ \E ok \in BOOLEAN : DupResolve(j, ok)
    \/ \E ok \in BOOLEAN : DupMoveDelete(j, ok)
    \/ \E outcome \in { "ok", "timeout", "error" } : Process(j, outcome)
    \/ \E ok \in BOOLEAN, t \in Readings : Build(j, ok, t)
    \/ \E i \in 1..NumUploads, ok \in BOOLEAN : PutAttempt(j, i, ok)

Next == \E j \in JobIds : Step(j)

Spec == Init /\ [][Next]_vars

\* The trigger of an invocation that ended with an upload error is delivered
\* again, to an environment in which no call fails any more.  The uploads
\* the first invocation left in flight when it returned are never resumed.
Redeliver ==
    /\ job[1].pc = "done"
    /\ Val(job[1].result).status = "error"
    /\ Val(job[1].result).processingPhase = "upload"
    /\ job[2].pc = "off"
    /\ job' = [job EXCEPT
                 ![1].uploads = [i \in 1..NumUploads |->
                                   IF job[1].uploads[i].st = "done"
                                   THEN UploadSlot("done", 0)
                                   ELSE IF job[1].uploads[i].st = "failed"
                                   THEN UploadSlot("failed", 0)
                                   ELSE UploadSlot("abandoned", 0)],
                 ![2] = NewJob("start", job[1].event)]
    /\ flaky' = {}
    /\ UNCHANGED << CONFIG, store, clock, retry, scan >>

\* A first invocation whose uploads may fail, against every disposition.
RedeliveryScenarios ==
    { Scenario(DispositionConfig(a), MainEvent, "canonA", "none", { "upload" }) :
        a \in { "replace", "delete", "move", "keep" } }
    \cup { Scenario(DefaultConfig, MainEvent, "plainD", "none", { "upload" }) }

RedeliveryInit == InitWith(RedeliveryScenarios)

RedeliveryNext ==
    \/ \E j \in JobIds : Step(j)
    \/ Redeliver

RedeliverySpec == RedeliveryInit /\ [][RedeliveryNext]_vars

\* Two invocations of one deployment, each on a trigger of its own that the
\* handler turns away: no object has been uploaded under any of the keys.
PairInit ==
    /\ clock = 1
    /\ CONFIG \in { DefaultConfig, AllowListConfig }
    /\ flaky = {}
    /\ store = {}
    /\ \E e1 \in RejectedEvents, e2 \in RejectedEvents :
           job = [j \in JobIds |-> NewJob("start", IF j = 1 THEN e1 ELSE e2)]
    /\ retry = NoRetry
    /\ scan = NoScan

PairNext ==
    \/ \E j \in JobIds : Validate(j)
    \/ \E j \in JobIds : Download(j, TRUE)

PairSpec == PairInit /\ [][PairNext]_vars

\* The trigger of a second upload, next to the main one.
SecondEvent ==
    EventOf(<< S3Record(Ingress, Some(Key(<< "photos", "/" >>, "DSC003345", "JPG")), 500000) >>)

\* The configurations and the photograph of the second upload: canonA
\* again and canonTwin share canonA's base name, canonB does not.
RaceScenarios ==
    { << DefaultConfig, "canonA" >>, << DefaultConfig, "canonTwin" >>,
      << DefaultConfig, "canonB" >>, << DispositionConfig("move"), "canonB" >> }

\* Two concurrent invocations on two uploads, the destination empty, no
\* call failing: Lambda runs one invocation per notification, and nothing
\* orders the steps of one against the steps of the other.
RaceInit ==
    /\ clock = Len(Clock)
    /\ flaky = {}
    /\ job = [j \in JobIds |-> NewJob("start", IF j = 1 THEN MainEvent ELSE SecondEvent)]
    /\ \E s \in RaceScenarios :
           /\ CONFIG = s[1]
           /\ store = SourceObjects(MainEvent, "canonA") \cup SourceObjects(SecondEvent, s[2])
    /\ retry = NoRetry
    /\ scan = NoScan

RaceNext == \E j \in JobIds : Step(j)

RaceSpec == RaceInit /\ [][RaceNext]_vars

\* s3:ObjectCreated:* on the ingress bucket, with no key filter: an object
\* the first invocation has put or copied into the bucket it was triggered
\* from is notified to the function as a trigger of its own.
Notify ==
    /\ job[1].pc = "done"
    /\ job[2].pc = "off"
    /\ \E o \in store :
         /\ o.by = 1
         /\ o.bucket = job[1].sourceBucket
         /\ job' = [job EXCEPT ![2] =
                NewJob("start", EventOf(<< S3Record(o.bucket, Some(o.key),
                           IF o.body.kind = "image" THEN BodySize(o.body) ELSE 1) >>))]
    /\ UNCHANGED << CONFIG, store, clock, flaky, retry, scan >>

\* A deployment with no processed bucket configured for the ingress bucket:
\* a fresh photo, and a duplicate that is moved under the duplicates prefix.
ChainScenarios ==
    { Scenario(DefaultConfig, MainEvent, "canonA", "none", {}),
      Scenario(DispositionConfig("move"), MainEvent, "canonA", "canonA", {}) }

ChainInit == InitWith(ChainScenarios)

ChainNext ==
    \/ \E j \in JobIds : Step(j)
    \/ Notify

ChainSpec == ChainInit /\ [][ChainNext]_vars

\* The capture times of a series of Nikon pictures earlier on the day of
\* canonA.
FillerTimes ==
    << << "00", "00", "00" >>, << "00", "00", "01" >>, << "00", "01", "00" >>, << "00", "01", "01" >>,
       << "00", "03", "00" >>, << "00", "03", "01" >>, << "00", "08", "00" >>, << "00", "08", "01" >>,
       << "01", "00", "00" >>, << "01", "00", "01" >>, << "01", "01", "00" >>, << "01", "01", "01" >>,
       << "01", "03", "00" >>, << "01", "03", "01" >>, << "01", "08", "00" >>, << "01", "08", "01" >> >>

\* The six objects an earlier job wrote for the Nikon picture taken at hms.
FillerFolder(targetBucket, hms) ==
    LET imageBuffer == ImageBody("nikonC", "original")
        original == [ContentType |-> "image/jpeg", ContentLength |-> BodySize(imageBuffer)]
        p == parseExif(imageBuffer, FALSE)
        taken == MkDate("2025", "09", "20", hms[1], hms[2], hms[3], "000")
        g == generateBaseName(Some(taken), p.camera, Clock[1])
        key == Key(<< >>, "IMG_0001", "jpg")
        metadata == buildMetadata(key, g.baseName, g.shotDate, p.camera, original,
                                  imageBuffer, p.exif, << "jpg" >>, Clock[1])
        cmds == UploadCommands(imageBuffer, original, metadata.photoFolder, g.baseName,
                               << "jpg" >>, metadata)
    IN  { Obj(targetBucket, cmds[i].Key, cmds[i].Body, cmds[i].ContentType, Null, 0)
          : i \in 1..NumUploads }

\* The numbers of earlier pictures of the day: with 15 the day's listing
\* holds 96 keys once canonA's folder is there, with 16 it holds 102.
DayFillers == { 15, 16 }

\* canonA is uploaded again on a day whose prefix already holds its own
\* processed folder after those of n earlier pictures.
DayInit ==
    /\ clock = Len(Clock)
    /\ CONFIG \in { DefaultConfig, DispositionConfig("move") }
    /\ flaky = {}
    /\ job = [j \in JobIds |-> IF j = 1 THEN NewJob("start", MainEvent) ELSE NewJob("off", Null)]
    /\ \E n \in DayFillers :
         store = SourceObjects(MainEvent, "canonA")
                   \cup PriorContents(Ingress, "canonA")
                   \cup UNION { FillerFolder(Ingress, FillerTimes[i]) : i \in 1..n }
    /\ retry = NoRetry
    /\ scan = NoScan

DayNext == \E j \in JobIds : Step(j)

DaySpec == DayInit /\ [][DayNext]_vars

\* One invocation in which every call may fail, run to its end: the Node
\* event loop resumes the handler whenever the call it awaits has settled,
\* and every call it awaits settles (a storage response or error, the
\* resize race's timer, the probe's result).
LiveScenarios ==
    { Scenario(DispositionConfig("move"), MainEvent, "canonA", "canonA", Calls),
      Scenario(DefaultConfig, MainEvent, "plainD", "none", { "download", "upload" }) }

LiveSpec == InitWith(LiveScenarios) /\ [][Next]_vars /\ WF_vars(Step(1))

\* The parts of the state a specification of one function leaves idle.
Idle ==
    /\ CONFIG = DefaultConfig
    /\ store = {}
    /\ job = [j \in JobIds |-> NewJob("off", Null)]
    /\ clock = 1
    /\ flaky = {}

\* retryWithBackoff on its own: every attempt limit, every schedule of
\* outcomes of fn, every jitter.
RetryInit ==
    /\ Idle
    /\ scan = NoScan
    /\ retry \in { NewRetry(n, b) : n \in 1..MaxAttemptLimit, b \in BaseDelays }

RetryNext ==
    \/ \E outcome \in FnOutcomes, jitter \in RetryJitters : RetryCall(outcome, jitter)
    \/ RetrySleep

RetrySpec == RetryInit /\ [][RetryNext]_vars

\* The comparison of the duplicate scan on its own: every candidate record
\* against every photograph.
ScanInit ==
    /\ Idle
    /\ retry = NoRetry
    /\ scan \in { [NoScan EXCEPT !.pc = "comparing", !.existingMetadata = m, !.photo = id] :
                    m \in ScanRecords, id \in PhotoIds }

ScanNext == Compare

ScanSpec == ScanInit /\ [][ScanNext]_vars


\* -------------------------------------------- vocabulary of the properties

Finished(j) == job[j].pc = "done"

Result(j) == Val(job[j].result)

Succeeded(j) == Finished(j) /\ Result(j).status = "success"

\* The storage writes a job has issued.
Writes(j) == { o \in job[j].ops : o.op \in { "put", "copy", "delete" } }

Puts(j) == { o \in job[j].ops : o.op = "put" }

\* The object key of the trigger's first record, as the handler decodes it;
\* Null when the event carries none.
TriggerKey(event) ==
    IF IsNull(event) THEN Null
    ELSE IF Len(Val(event).Records) = 0 THEN Null
    ELSE LET rec == Val(event).Records[1] IN
         IF IsNull(rec.s3) THEN Null
         ELSE IF IsNull(Val(rec.s3).bucket) \/ IsNull(Val(rec.s3).object) THEN Null
         ELSE IF IsNull(Val(Val(rec.s3).object).key) THEN Null
         ELSE IF DecodeKey(Val(Val(Val(rec.s3).object).key)).threw THEN Null
         ELSE Some(DecodeKey(Val(Val(Val(rec.s3).object).key)).value)

\* The duplicate scan of job j has returned a positive verdict.
PositiveVerdict(j) == ~IsNull(job[j].duplicateCheck)

SourcePresent(j) == Exists(store, job[j].sourceBucket, job[j].key)

\* The ProcessedRecords of a bucket: the keys of its metadata documents.
ProcessedRecords(bucket) ==
    { o.key : o \in { x \in store : x.bucket = bucket /\ x.body.kind = "json" } }

\* The objects of the destination that job j wrote last.
StoredBy(j) == { o \in store : o.bucket = job[j].targetBucket /\ o.by = j }

\* A copy of job j's source under the quarantine prefix, with its tags.
QuarantineCopies(j) ==
    { o \in store :
        /\ o.bucket = job[j].targetBucket
        /\ startsWith(o.key, CONFIG.DUPLICATES_PREFIX)
        /\ o.body = job[j].imageBuffer }

Tagged(o, j) ==
    /\ ~IsNull(o.Metadata)
    /\ Val(o.Metadata).originalKey = job[j].key
    /\ Val(o.Metadata).duplicateReason = Val(job[j].duplicateCheck).reason
    /\ Val(o.Metadata).duplicateConfidence = Val(job[j].duplicateCheck).confidence
    /\ Val(o.Metadata).existingFile = Val(job[j].duplicateCheck).existingFile
    /\ Val(o.Metadata).detectedAt \in { toISOString(Clock[i]) : i \in DOMAIN Clock }

\* ------------------------------------------------------------------- C1

\* C1: whatever the trigger and whichever calls fail, an invocation has a
\* result exactly when it has ended, that result's status is success,
\* skipped or error, and a result once returned is never replaced.
C1_OneStructuredResult ==
    /\ [](\A j \in JobIds :
            /\ Finished(j) <=> ~IsNull(job[j].result)
            /\ ~IsNull(job[j].result) => Result(j).status \in { "success", "skipped", "error" })
    /\ [][\A j \in JobIds : ~IsNull(job[j].result) => job'[j].result = job[j].result]_vars

\* An upload has exhausted its attempts and the handler has returned an error.
C1_UploadFailureReturned ==
    \E j \in JobIds :
        /\ Finished(j)
        /\ Result(j).status = "error"
        /\ Result(j).processingPhase = "upload"
        /\ \E i \in 1..NumUploads : job[j].uploads[i].st = "failed"

\* ------------------------------------------------------------------- C2

\* C2: an invocation whose key has an extension outside the supported set
\* returns status "skipped" with reason "unsupported_format" and issues no
\* storage operation.
C2_UnsupportedIsSkipped ==
    \A j \in JobIds :
        ( /\ Finished(j)
          /\ ~IsNull(TriggerKey(job[j].event))
          /\ toLowerCase(SplitPop(Val(TriggerKey(job[j].event)), ".")) \notin SUPPORTED_FORMATS )
        => /\ Result(j).status = "skipped"
           /\ Result(j).reason = "unsupported_format"
           /\ job[j].ops = {}

\* ------------------------------------------------------------------- C3

\* C3: an invocation whose key starts with the duplicates prefix, or with the
\* "photo-" prefix every output folder starts with, returns status "skipped"
\* and issues no put, copy or delete.
C3_OwnOutputIsSkipped ==
    \A j \in JobIds :
        ( /\ ~IsNull(TriggerKey(job[j].event))
          /\ \/ startsWith(Val(TriggerKey(job[j].event)), CONFIG.DUPLICATES_PREFIX)
             \/ startsWith(Val(TriggerKey(job[j].event)), << "photo", "-" >>) )
        => /\ Writes(j) = {}
           /\ Finished(j) => Result(j).status = "skipped"

\* ------------------------------------------------------------------- C4

\* C4: with a positive verdict and disposition delete, move or keep the job
\* never resizes or uploads and ends with status "skipped"; the pipeline goes
\* on past a positive verdict only under disposition replace.
C4_NonReplaceIsSkipped ==
    \A j \in JobIds :
        PositiveVerdict(j) =>
            /\ Disposition(CONFIG.DUPLICATE_ACTION) \in { "delete", "move", "keep" }
                   => /\ ~job[j].resized
                      /\ Puts(j) = {}
                      /\ Finished(j) => Result(j).status = "skipped"
            /\ (job[j].resized \/ job[j].pc \in { "process", "build", "upload" })
                   => Disposition(CONFIG.DUPLICATE_ACTION) = "replace"

\* ------------------------------------------------------------------- C5

\* C5 (stated for behaviours in which no call fails and the disposition is
\* spelled "replace"): after a positive verdict the job succeeds, the source
\* object is gone, and the destination holds exactly one ProcessedRecord: the
\* matched one, overwritten.
C5_ReplaceOverwritesMatch ==
    \A j \in JobIds :
        ( /\ flaky = {}
          /\ CONFIG.DUPLICATE_ACTION = << "replace" >>
          /\ PositiveVerdict(j)
          /\ Finished(j) )
        => /\ Result(j).status = "success"
           /\ ~SourcePresent(j)
           /\ ProcessedRecords(job[j].targetBucket)
                  = { Val(job[j].duplicateCheck).existingFile \o << ".", "json" >> }
           /\ Result(j).metadata = Val(job[j].duplicateCheck).existingFile \o << ".", "json" >>

\* ------------------------------------------------------------------- C6

\* C6: with a positive verdict and disposition move, a job that has ended has
\* not resized or uploaded anything, its source object is gone, and a copy
\* carrying the tags lies under the duplicates prefix.
C6_MoveQuarantines ==
    \A j \in JobIds :
        ( /\ PositiveVerdict(j)
          /\ Disposition(CONFIG.DUPLICATE_ACTION) = "move"
          /\ Finished(j) )
        => /\ ~job[j].resized
           /\ Puts(j) = {}
           /\ ~SourcePresent(j)
           /\ \E o \in QuarantineCopies(j) : Tagged(o, j)

\* C6, amended: with a positive verdict and disposition move a job never
\* resizes or uploads; when it has ended, if neither the copy nor the delete
\* failed the source object is gone and a tagged copy lies under the
\* duplicates prefix; if the copy failed the source object is still in place
\* and no copy was made; if the delete failed after the copy both exist.
C6_MoveQuarantinesUnlessCallFails ==
    \A j \in JobIds :
        ( /\ PositiveVerdict(j)
          /\ Disposition(CONFIG.DUPLICATE_ACTION) = "move" )
        => /\ ~job[j].resized
           /\ Puts(j) = {}
           /\ Finished(j) =>
                LET deleteIssued == Op("delete", job[j].sourceBucket, job[j].key) \in job[j].ops IN
                CASE job[j].duplicateHandling = "moved" ->
                        /\ ~SourcePresent(j)
                        /\ \E o \in QuarantineCopies(j) : Tagged(o, j)
                  [] job[j].duplicateHandling = "error" /\ ~deleteIssued ->
                        /\ SourcePresent(j)
                        /\ QuarantineCopies(j) = {}
                  [] job[j].duplicateHandling = "error" /\ deleteIssued ->
                        /\ SourcePresent(j)
                        /\ \E o \in QuarantineCopies(j) : Tagged(o, j)
                  [] OTHER -> FALSE

\* A duplicate has been moved: copied under the duplicates prefix, deleted
\* at the source, and the job has ended.
C6_Moved ==
    \E j \in JobIds :
        /\ Finished(j)
        /\ PositiveVerdict(j)
        /\ Disposition(CONFIG.DUPLICATE_ACTION) = "move"
        /\ job[j].duplicateHandling = "moved"
        /\ Op("copy", job[j].targetBucket, job[j].duplicateKey) \in job[j].ops

\* ------------------------------------------------------------------- C7

C8_SourceFilenameKept ==
    \A j \in JobIds :
        Succeeded(j) =>
            LET folder == job[j].baseName \o << "/" >> IN
            /\ \E o \in StoredBy(j) :
                   /\ o.key = folder \o SplitPop(job[j].key, "/")
                   /\ o.body = job[j].imageBuffer
            /\ \A i \in DOMAIN SizeLabels :
                   \E o \in StoredBy(j) :
                       /\ o.key = folder \o << SizeLabels[i], ".", "jpg" >>
                       /\ o.body.label = SizeLabels[i]

\* ------------------------------------------------------------------- C9

\* C9: each of the five paths a successful job returns in processedFiles,
\* and each path of the versions map of its metadata document, is the key
\* of an object the job wrote, and the metadata path it returns is the key
\* of the metadata document it wrote.
C9_ReturnedPathsWritten ==
    \A j \in JobIds :
        Succeeded(j) =>
            LET versions == Val(job[j].metadata).versions IN
            /\ \A i \in DOMAIN Result(j).processedFiles :
                   \E o \in StoredBy(j) : o.key = Result(j).processedFiles[i]
            /\ \A label \in DOMAIN versions :
                   \E o \in StoredBy(j) : o.key = versions[label]
            /\ \E o \in StoredBy(j) : o.key = Result(j).metadata /\ o.body.kind = "json"

\* ------------------------------------------------------------------ C10

\* The timestamp part of a base name, spelled out: YYYY-MM-DD_HH-MM-SS-mmmZ.
ExpectedTimestamp(d) ==
    << d.ymd[1], "-", d.ymd[2], "-", d.ymd[3], "_",
       d.hms[1], "-", d.hms[2], "-", d.hms[3], "-", d.ms, "Z" >>

C11_RetryCountsAndLastError ==
    /\ retry.calls <= retry.maxRetries
    /\ Len(retry.thrown) <= retry.calls
    /\ retry.pc = "threw" =>
           /\ retry.calls = retry.maxRetries
           /\ Len(retry.thrown) = retry.maxRetries
           /\ Len(retry.delays) = retry.maxRetries - 1
           /\ Val(retry.outcome) = Threw(retry.thrown[retry.maxRetries])
    /\ retry.pc = "returned" =>
           /\ retry.calls = Len(retry.thrown) + 1
           /\ retry.calls <= retry.maxRetries
           /\ Len(retry.delays) = retry.calls - 1
           /\ ~Val(retry.outcome).threw
           /\ Val(retry.outcome) \in FnOutcomes

\* Three attempts have failed, the first and the last with different
\* errors, and the call has thrown.
C11_ThrewAfterThreeAttempts ==
    /\ retry.pc = "threw"
    /\ retry.maxRetries = MaxRetries
    /\ retry.thrown[1] # retry.thrown[3]

\* ------------------------------------------------------------------ C12

\* C12: the k-th delay of a call of retryWithBackoff is baseDelay * 2^(k-1)
\* plus a jitter of at least 0 and less than 1000 ms; with a baseDelay of
\* 1000 ms every delay is longer than the one before it.
C12_DelaysGrow ==
    /\ \A k \in DOMAIN retry.delays :
           /\ retry.delays[k] >= retry.baseDelay * 2^(k - 1)
           /\ retry.delays[k] < retry.baseDelay * 2^(k - 1) + 1000
    /\ retry.baseDelay = 1000 =>
           \A k \in DOMAIN retry.delays :
               k > 1 => retry.delays[k] > retry.delays[k - 1]

\* Two delays have been waited at the base delay of the call sites, the
\* first with the largest jitter and the second with none.
C12_LargestThenSmallestJitter ==
    /\ retry.baseDelay = 1000
    /\ Len(retry.delays) >= 2
    /\ retry.delays[1] = 1999
    /\ retry.delays[2] = 2000

\* ------------------------------------------------------------------ C13

\* C13: a job whose EXIF parse failed (parser error or timeout) has camera
\* "unknown" and no capture date; the step that parses EXIF never ends the
\* job but hands over to the duplicate check (to the resize when the check
\* is switched off); and no result carries the error of the parse.
C13_ParseFailureAbsorbed ==
    /\ [](\A j \in JobIds :
            /\ IsNull(job[j].exif) => job[j].camera = << "unknown" >> /\ IsNull(job[j].exifDate)
            /\ Finished(j) => Result(j).status = "success" \/ Result(j).error # MsgExifTimeout)
    /\ [][\A j \in JobIds :
            job[j].pc = "exif" =>
                job'[j].pc \in { "exif", IF CONFIG.CHECK_DUPLICATES THEN "dupList" ELSE "process" }]_vars

\* The parse of an image that does carry EXIF timed out, and the job went on
\* to succeed.
C13_SucceededAfterParseTimeout ==
    \E j \in JobIds :
        /\ Succeeded(j)
        /\ ~IsNull(BodyExif(job[j].imageBuffer))
        /\ IsNull(job[j].exif)

\* ------------------------------------------------------------------ C14

\* C14: no step of the duplicate scan (the listing, the fetch and parse of a
\* sidecar) ends the job, whichever of its calls fail; a job leaves a failed
\* listing as a non-duplicate; and the only error a job returns between the
\* EXIF parse and the resize is the duplicate_detected of a positive verdict.
C14_ScanFailuresAbsorbed ==
    /\ [](\A j \in JobIds :
            (Finished(j) /\ Result(j).status = "error" /\ Result(j).processingPhase = "exif_parsing")
            => Result(j).error = MsgDuplicateDetected /\ PositiveVerdict(j))
    /\ [][\A j \in JobIds :
            /\ job[j].pc \in { "dupList", "dupScan" }
                   => job'[j].pc \in { "dupList", "dupScan", "dupResolve", "process" }
            /\ (job[j].pc = "dupList" /\ job'[j].pc = "process") => ~PositiveVerdict(j)']_vars

\* A sidecar that does not parse was fetched and passed over, and the job
\* went on to succeed as a non-duplicate.
C14_SucceededPastGarbledSidecar ==
    \E j \in JobIds :
        /\ Succeeded(j)
        /\ ~PositiveVerdict(j)
        /\ \E o \in store :
               /\ o.body = GarbageBody
               /\ Op("get", job[j].targetBucket, o.key) \in job[j].ops

\* ------------------------------------------------------------------ C16

\* C16: a job one of whose six uploads has failed on its last attempt has
\* returned status "error" with processingPhase "upload"; it has issued no
\* delete on any of its six keys, and every upload of it that succeeded is
\* still in the destination as the job wrote it.
C16_UploadFailureLeavesWrites ==
    \A j \in JobIds :
        (\E i \in 1..NumUploads : job[j].uploads[i].st = "failed") =>
            /\ Finished(j)
            /\ Result(j).status = "error"
            /\ Result(j).processingPhase = "upload"
            /\ \A i \in 1..NumUploads :
                   /\ Op("delete", job[j].targetBucket, JobCommands(job[j])[i].Key) \notin job[j].ops
                   /\ job[j].uploads[i].st = "done" =>
                          \E o \in StoredBy(j) :
                              /\ o.key = JobCommands(job[j])[i].Key
                              /\ o.body = JobCommands(job[j])[i].Body

\* One upload has failed for good after another has succeeded.
C16_FailedAfterOtherSucceeded ==
    \E j \in JobIds :
        /\ \E i \in 1..NumUploads : job[j].uploads[i].st = "failed"
        /\ \E i \in 1..NumUploads : job[j].uploads[i].st = "done"
        /\ Finished(j)

\* ------------------------------------------------------------------ C15

\* The incoming photograph of a comparison, as parseExif reads it.
Incoming == parseExif(ImageBody(scan.photo, "original"), FALSE)

\* The candidate and the incoming photograph differ by less than 1 KB, both
\* carry a capture timestamp and the two are equal, and their cameras (the
\* EXIF make, "unknown" when absent) are equal up to letter case.
SameShot ==
    LET m == scan.existingMetadata
        d == m.fileSize - Photo(scan.photo).size
    IN  /\ d < 1024 /\ 0 - d < 1024
        /\ ~IsNull(Incoming.exif)
        /\ ~IsNull(m.exifData)
        /\ ~IsNull(Val(m.exifData).dateTimeOriginal)
        /\ ~IsNull(Incoming.exifDate)
        /\ Val(Val(m.exifData).dateTimeOriginal) = toISOString(Val(Incoming.exifDate))
        /\ toLowerCase(OrUnknown(Val(m.exifData).make))
               = toLowerCase(OrUnknown(Val(Incoming.exif).tags.Make))

\* Both sides carry pixel dimensions and they are equal.
SameDimensions ==
    LET m == scan.existingMetadata IN
    /\ ~IsNull(m.originalDimensions)
    /\ ~IsNull(Val(Incoming.exif).imageSize)
    /\ Val(m.originalDimensions).width = Val(Val(Incoming.exif).imageSize).width
    /\ Val(m.originalDimensions).height = Val(Val(Incoming.exif).imageSize).height

\* C15: for a candidate within 1 KB of the incoming photograph with the same
\* capture timestamp and the same camera up to letter case, the verdict is a
\* duplicate of high confidence: with reason
\* exact_match_exif_timestamp_camera_dimensions when width and height are
\* equal, with reason exact_match_exif_timestamp_camera when they differ or
\* are not available.
C15_HighConfidenceVerdicts ==
    (scan.pc = "compared" /\ SameShot) =>
        /\ ~IsNull(scan.verdict)
        /\ Val(scan.verdict).isDuplicate
        /\ Val(scan.verdict).confidence = "high"
        /\ Val(scan.verdict).reason =
               IF SameDimensions THEN "exact_match_exif_timestamp_camera_dimensions"
               ELSE "exact_match_exif_timestamp_camera"

\* A candidate written in other letter case, 200 bytes apart, with the same
\* timestamp but other dimensions, has been compared.
C15_ComparedOtherCaseOtherDimensions ==
    /\ scan.pc = "compared"
    /\ SameShot
    /\ ~SameDimensions
    /\ ~IsNull(scan.existingMetadata.originalDimensions)
    /\ Val(scan.existingMetadata.exifData).make = Some(<< "CANON" >>)
    /\ scan.existingMetadata.fileSize # Photo(scan.photo).size

\* ------------------------------------------------------------------ C17

\* The folders of processed photographs in a bucket: the first path segment
\* of every key that starts with "photo-".
Folders(bucket) ==
    { SplitFirst(o.key, "/") :
        o \in { x \in store : x.bucket = bucket /\ startsWith(x.key, << "photo", "-" >>) } }

\* C17: when the second, fault-free invocation for the trigger of an
\* invocation that failed in the upload phase has ended, the six objects of
\* the first invocation's folder are all in the destination, and the
\* destination holds no other folder: whichever uploads the first invocation
\* had completed and whatever the duplicate disposition.
C17_RedeliveryHeals ==
    ( /\ Finished(1)
      /\ Result(1).status = "error"
      /\ Result(1).processingPhase = "upload"
      /\ Finished(2) )
    => /\ \A i \in 1..NumUploads :
              Exists(store, job[1].targetBucket, JobCommands(job[1])[i].Key)
       /\ Folders(job[1].targetBucket) = { job[1].baseName }

\* ------------------------------------------------------ C18, C19 and C20

\* The source bucket and the declared size of the trigger's first record;
\* Null when the record does not carry them.
Declared(event) ==
    IF IsNull(event) THEN Null
    ELSE IF Len(Val(event).Records) = 0 THEN Null
    ELSE LET rec == Val(event).Records[1] IN
         IF IsNull(rec.s3) THEN Null
         ELSE IF IsNull(Val(rec.s3).bucket) \/ IsNull(Val(rec.s3).object) THEN Null
         ELSE Some([bucket |-> Val(Val(rec.s3).bucket).name,
                    size |-> Val(Val(rec.s3).object).size])

\* The first record is well-formed and its key has a supported extension.
SupportedTrigger(event) ==
    /\ ~IsNull(TriggerKey(event))
    /\ toLowerCase(SplitPop(Val(TriggerKey(event)), ".")) \in SUPPORTED_FORMATS

\* The event comes from a bucket the configured allow-list does not hold.
ForeignSource(event) ==
    /\ ~IsNull(Declared(event))
    /\ ~IsNull(CONFIG.ALLOWED_SOURCE_BUCKETS)
    /\ Val(Declared(event)).bucket \notin Val(CONFIG.ALLOWED_SOURCE_BUCKETS)

\* The declared size of the event's object exceeds the configured ceiling.
Oversize(event) ==
    /\ ~IsNull(Declared(event))
    /\ Val(Declared(event)).size > CONFIG.MAX_FILE_SIZE

\* Job j has ended with an error of the given message.
FailedWith(j, message) ==
    /\ Finished(j)
    /\ Result(j).status = "error"
    /\ Result(j).error = message

\* C18: an invocation whose source bucket is not in the configured
\* allow-list issues no storage operation and ends with the error "Bucket
\* ... not allowed"; without an allow-list no invocation ends with it.
C18_ForeignSourceRejected ==
    \A j \in JobIds :
        /\ (job[j].pc # "off" /\ ForeignSource(job[j].event)) =>
               /\ job[j].ops = {}
               /\ Finished(j) => FailedWith(j, MsgNotAllowed(Val(Declared(job[j].event)).bucket))
        /\ (Finished(j) /\ IsNull(CONFIG.ALLOWED_SOURCE_BUCKETS) /\ ~IsNull(Declared(job[j].event)))
               => ~FailedWith(j, MsgNotAllowed(Val(Declared(job[j].event)).bucket))

\* C18, amended: an invocation whose source bucket is not in the configured
\* allow-list issues no storage operation and ends with an error; the error
\* is "Bucket ... not allowed" when the first record is well-formed with a
\* supported extension and a declared size within the ceiling (the tests
\* made before the allow-list test); without an allow-list no invocation
\* ends with it.
C18_ForeignSourceRejectedWhenOtherwiseValid ==
    \A j \in JobIds :
        /\ (job[j].pc # "off" /\ ForeignSource(job[j].event)) =>
               /\ job[j].ops = {}
               /\ job[j].pc \in { "start", "done" }
               /\ Finished(j) =>
                      /\ Result(j).status = "error"
                      /\ (SupportedTrigger(job[j].event) /\ ~Oversize(job[j].event))
                             => FailedWith(j, MsgNotAllowed(Val(Declared(job[j].event)).bucket))
        /\ (Finished(j) /\ IsNull(CONFIG.ALLOWED_SOURCE_BUCKETS) /\ ~IsNull(Declared(job[j].event)))
               => ~FailedWith(j, MsgNotAllowed(Val(Declared(job[j].event)).bucket))

\* An otherwise valid trigger from a bucket outside the allow-list has been
\* turned away.
C18_StrayTurnedAway ==
    \E j \in JobIds :
        /\ ForeignSource(job[j].event)
        /\ SupportedTrigger(job[j].event)
        /\ FailedWith(j, MsgNotAllowed("other-bucket"))

\* C19: an invocation whose declared size exceeds the ceiling never issues a
\* storage operation on the source object and ends with the error "File
\* size ... exceeds maximum ...".
C19_OversizeRejected ==
    \A j \in JobIds :
        (job[j].pc # "off" /\ Oversize(job[j].event)) =>
            /\ job[j].ops = {}
            /\ Finished(j) => FailedWith(j, MsgTooLarge)

\* C19, amended: an invocation whose declared size exceeds the ceiling never
\* issues a storage operation and ends with an error; the error is "File
\* size ... exceeds maximum ..." when the first record is well-formed with a
\* supported extension (the tests made before the size test).
C19_OversizeRejectedWhenSupported ==
    \A j \in JobIds :
        (job[j].pc # "off" /\ Oversize(job[j].event)) =>
            /\ job[j].ops = {}
            /\ job[j].pc \in { "start", "done" }
            /\ Finished(j) =>
                   /\ Result(j).status = "error"
                   /\ SupportedTrigger(job[j].event) => FailedWith(j, MsgTooLarge)

\* An oversize image from a bucket outside the allow-list has been turned
\* away for its size.
C19_OversizeForeignTurnedAway ==
    \E j \in JobIds :
        /\ Oversize(job[j].event)
        /\ ForeignSource(job[j].event)
        /\ FailedWith(j, MsgTooLarge)

\* The keys of the records after the first, as far as they carry one.
LaterKeys(event) ==
    { Val(Val(Val(Val(event).Records[i].s3).object).key) :
        i \in { k \in 2..Len(Val(event).Records) :
                  /\ ~IsNull(Val(event).Records[k].s3)
                  /\ ~IsNull(Val(Val(event).Records[k].s3).object)
                  /\ ~IsNull(Val(Val(Val(event).Records[k].s3).object).key) } }

\* C20: in an invocation for a batch of several records, the storage
\* operations on source objects name the first record's bucket and key, no
\* operation names the key of a later record, the objects of the later
\* records stay as they were, and, no call failing, the invocation succeeds
\* as it does for the first record alone.
C20_OnlyFirstRecordConsumed ==
    \A j \in JobIds :
        (job[j].pc # "off" /\ ~IsNull(job[j].event) /\ Len(Val(job[j].event).Records) > 1) =>
            LET first == Val(TriggerKey(job[j].event)) IN
            /\ \A o \in job[j].ops :
                   /\ o.key \notin LaterKeys(job[j].event)
                   /\ o.bucket \in { Val(Declared(job[j].event)).bucket, job[j].targetBucket }
                   /\ \/ o.key = first
                      \/ startsWith(o.key, << "photo", "-" >>)
            /\ \A k \in LaterKeys(job[j].event) :
                   \A o \in store : o.key = k => o.by = 0
            /\ (Finished(j) /\ flaky = {}) => Succeeded(j)

\* The invocation for a batch of three records has succeeded.
C20_BatchOfThreeSucceeded ==
    \E j \in JobIds :
        /\ Succeeded(j)
        /\ Len(Val(job[j].event).Records) = 3

\* ------------------------------------------------------------------ C21

\* The destination of an invocation: the mapping table's entry for the
\* source bucket of the first record, the source bucket without one.
Destination(j) == TargetOf(CONFIG, Val(Declared(job[j].event)).bucket)

ResizeTimedOut(j) ==
    /\ job[j].resized
    /\ FailedWith(j, MsgProcessingTimeout)

\* C22: an invocation whose resize timer fired before the four resizes were
\* done has returned an error result of category "timeout", raised in the
\* image processing phase, has issued no upload and has stored nothing.
C22_ResizeTimeoutFailsJob ==
    /\ \A j \in JobIds :
           ResizeTimedOut(j) =>
               /\ Result(j).errorCategory = "timeout"
               /\ Result(j).processingPhase = "image_processing"
               /\ Puts(j) = {}
               /\ \A o \in store : o.by # j \/ o.bucket # job[j].targetBucket
    /\ \A j \in JobIds :
           (job[j].pc = "done" /\ job[j].resized /\ IsNull(job[j].metadata)) =>
               /\ Result(j).status = "error"
               /\ Puts(j) = {}

\* The timer has fired on an invocation that had found no duplicate.
C22_TimedOutAfterCleanScan ==
    \E j \in JobIds :
        /\ ResizeTimedOut(j)
        /\ ~PositiveVerdict(j)
        /\ \E o \in job[j].ops : o.op = "get" /\ o.bucket = job[j].sourceBucket

\* ------------------------------------------------------------------ C23

\* C23: two invocations that ended with an error in the same processing
\* phase carry the same errorCategory, whatever their messages are.
C23_CategoryFollowsPhase ==
    \A j \in JobIds, k \in JobIds :
        ( /\ Finished(j) /\ Result(j).status = "error"
          /\ Finished(k) /\ Result(k).status = "error"
          /\ Result(j).processingPhase = Result(k).processingPhase )
            => Result(j).errorCategory = Result(k).errorCategory

\* ------------------------------------------------------------------ C24

\* C24: after a successful invocation the source object is gone if and
\* only if the deployment sets DELETE_ORIGINAL to true.
C24_SourceDeletedIffConfigured ==
    \A j \in JobIds :
        Succeeded(j) => (~SourcePresent(j) <=> CONFIG.DELETE_ORIGINAL)

\* ------------------------------------------------------------------ C25

\* The operations of the duplicate check and of its resolution.
DuplicateOps(j) ==
    { o \in job[j].ops :
        \/ o.op \in { "list", "copy", "delete" }
        \/ o.op = "get" /\ o.bucket = job[j].targetBucket /\ endsWith(o.key, << ".", "json" >>) }

Listed(j) ==
    { o \in store : /\ o.bucket = job[j].targetBucket
                    /\ startsWith(o.key, SearchPrefix(job[j].shotDate))
                    /\ endsWith(o.key, << ".", "json" >>) }

\* The sizes of the candidate and of the downloaded object differ by less
\* than 1 KB.
WithinTolerance(o, j) ==
    LET d == Val(o.body.meta).fileSize - job[j].original.ContentLength
    IN  d < 1024 /\ 0 - d < 1024

\* Both sides carry a capture timestamp, the two are equal and the cameras
\* of the EXIF blocks are equal up to letter case.
SameCapture(o, j) ==
    LET m == Val(o.body.meta) IN
    /\ ~IsNull(job[j].exif)
    /\ ~IsNull(m.exifData)
    /\ ~IsNull(Val(m.exifData).dateTimeOriginal)
    /\ ~IsNull(job[j].exifDate)
    /\ Val(Val(m.exifData).dateTimeOriginal) = toISOString(Val(job[j].exifDate))
    /\ toLowerCase(OrUnknown(Val(m.exifData).make))
           = toLowerCase(OrUnknown(Val(job[j].exif).tags.Make))

\* The candidate qualifies as a duplicate of the object job j downloaded.
Qualifies(o, j) ==
    /\ o.body.kind = "json"
    /\ WithinTolerance(o, j)
    /\ \/ SameCapture(o, j)
       \/ /\ ~IsNull(Val(o.body.meta).camera)
          /\ toLowerCase(Val(Val(o.body.meta).camera)) = toLowerCase(job[j].camera)

\* The sidecars job j has fetched.
Fetched(j) ==
    { o \in Listed(j) : Op("get", job[j].targetBucket, o.key) \in job[j].ops }

\* C26: when the scan returns a verdict, the matched record is a listed
\* sidecar that qualifies and lies within 1 KB of the new object, no
\* sidecar before it in the listing qualifies (a later one may, with higher
\* confidence), and the scan has fetched the sidecars up to the matched one
\* and none after it; when a scan in which no call failed returns no
\* verdict, no listed sidecar qualifies.
C26_FirstQualifyingCandidateWins ==
    \A j \in JobIds :
        /\ job[j].pc = "dupResolve" =>
               \E m \in Listed(j) :
                   /\ RemoveFirst(m.key, << ".", "json" >>) = Val(job[j].duplicateCheck).existingFile
                   /\ Qualifies(m, j)
                   /\ WithinTolerance(m, j)
                   /\ \A o \in Listed(j) : KeyLess(o.key, m.key) => ~Qualifies(o, j)
                   /\ Fetched(j) = { o \in Listed(j) : o.key = m.key \/ KeyLess(o.key, m.key) }
        /\ ( /\ job[j].pc = "process"
              /\ Op("list", job[j].targetBucket, SearchPrefix(job[j].shotDate)) \in job[j].ops
              /\ ~PositiveVerdict(j)
              /\ flaky = {} ) =>
               /\ \A o \in Listed(j) : ~Qualifies(o, j)
               /\ Fetched(j) = Listed(j)

\* The scan has matched the second of three candidates with medium
\* confidence: the first is 1 KB apart, the third would match with high
\* confidence and has not been fetched.
C26_MediumMatchedBeforeHigh ==
    \E j \in JobIds :
        /\ job[j].pc = "dupResolve"
        /\ Val(job[j].duplicateCheck).confidence = "medium"
        /\ Cardinality(Listed(j)) = 3
        /\ Cardinality(Fetched(j)) = 2
        /\ \E o \in Fetched(j) : Qualifies(o, j)
        /\ \E o \in Fetched(j) :
               Val(o.body.meta).fileSize - job[j].original.ContentLength = SizeTolerance
        /\ \E o \in Listed(j) \ Fetched(j) : SameCapture(o, j) /\ WithinTolerance(o, j)

\* ------------------------------------------------------------------ C27

\* The incoming photograph and the candidate both carry capture metadata:
\* an EXIF block with a capture timestamp on each side.
BothCarryCapture ==
    /\ ~IsNull(Incoming.exif)
    /\ ~IsNull(Incoming.exifDate)
    /\ ~IsNull(scan.existingMetadata.exifData)
    /\ ~IsNull(Val(scan.existingMetadata.exifData).dateTimeOriginal)

\* C27: the verdict of medium confidence is returned only when the two
\* sides do not both carry capture metadata; when both do and their capture
\* timestamps or their cameras differ, the candidate is no duplicate.
C27_MediumOnlyWithoutCaptureData ==
    scan.pc = "compared" =>
        /\ (~IsNull(scan.verdict) /\ Val(scan.verdict).confidence = "medium") => ~BothCarryCapture
        /\ (BothCarryCapture /\ ~SameShot) => IsNull(scan.verdict)

\* ------------------------------------------------------------------ C28

\* C28: no storage call takes effect on its first failure.  The listing of
\* a destination that holds sidecars is left without candidates only when
\* its attempts are used up; a sidecar that qualifies is passed over only
\* then; the resolution of a duplicate is recorded as failed only then; and
\* a download or an upload fails the job only then.
C28_EveryStorageCallRetried ==
    [][\A j \in JobIds :
          /\ ( /\ job[j].pc = "dupList"
               /\ job'[j].pc = "process"
               /\ Listed(j) # {} ) => job[j].attempt = MaxRetries
          /\ ( /\ job[j].pc = "dupScan"
               /\ job'[j].pc \in { "dupScan", "process" }
               /\ \E o \in Listed(j) : o.key = Head(job[j].jsonFiles) /\ Qualifies(o, j) )
                 => job[j].attempt = MaxRetries
          /\ ( /\ job[j].pc \in { "dupResolve", "dupMoveDelete" }
               /\ job'[j].duplicateHandling = "error" ) => job[j].attempt = MaxRetries
          /\ ( /\ job[j].pc = "download"
               /\ job'[j].pc = "done" ) => job[j].attempt = MaxRetries
          /\ \A i \in 1..NumUploads :
                 ( /\ job[j].pc \in { "upload", "done" }
                   /\ job[j].uploads[i].st = "inflight"
                   /\ job'[j].uploads[i].st = "failed" ) => job[j].uploads[i].attempt = MaxRetries
      ]_vars

\* ------------------------------------------------------------------ C29

\* C29: when the handler has returned its result, none of its six uploads
\* is still in flight or waiting for a retry, and the destination receives
\* no write of the invocation after that.
C29_UploadsJoinedBeforeReturn ==
    /\ [](\A j \in JobIds :
              Finished(j) => \A i \in 1..NumUploads : job[j].uploads[i].st # "inflight")
    /\ [][\A j \in JobIds :
              Finished(j) => { o \in store : o.by = j }' = { o \in store : o.by = j }]_vars

\* ------------------------------------------------------------------ C30

\* The stages in the order the handler goes through them.
PhaseRank(phase) ==
    CASE phase = "initialization"   -> 0
      [] phase = "validation"       -> 1
      [] phase = "download"         -> 2
      [] phase = "exif_parsing"     -> 3
      [] phase = "image_processing" -> 4
      [] phase = "upload"           -> 5

\* C30: the phase marker only moves forward, and the processingPhase of an
\* error result names the stage whose step failed: "validation" for an
\* event or an object the validation turns away, a phase of its own for the
\* outcome of the duplicate resolution (none of the phases of the download,
\* the EXIF parse, the resizes or the uploads), and a phase of its own for
\* a failure of buildMetadata.
C30_PhaseNamesFailedStage ==
    /\ [][\A j \in JobIds :
              /\ PhaseRank(job[j].processingPhase) <= PhaseRank(job'[j].processingPhase)
              /\ (job[j].pc = "build" /\ job'[j].pc = "done") =>
                     Val(job'[j].result).processingPhase \notin { "image_processing", "upload" }]_vars
    /\ [](\A j \in JobIds :
              (Finished(j) /\ Result(j).status = "error") =>
                  /\ job[j].ops = {} => Result(j).processingPhase = "validation"
                  /\ Result(j).error = MsgDuplicateDetected =>
                         Result(j).processingPhase \notin
                             { "initialization", "validation", "download", "exif_parsing",
                               "image_processing", "upload" })

\* ------------------------------------------------------------------ C33

\* Job j resolves a duplicate by moving it.
Moving(j) ==
    /\ job[j].pc # "off"
    /\ PositiveVerdict(j)
    /\ Disposition(CONFIG.DUPLICATE_ACTION) = "move"

\* C33: under disposition move the source object is deleted only after the
\* copy has succeeded.  In every state where the delete has been issued or
\* the source object is gone, the tagged copy lies under the duplicates
\* prefix; as long as there is no copy (the copy failed, or was not made
\* yet) the source object is in place and no delete was issued; and every
\* step that removes the source object starts from a state holding the copy.
C33_SourceDeletedOnlyAfterCopy ==
    /\ [](\A j \in JobIds :
              Moving(j) =>
                  /\ ( \/ Op("delete", job[j].sourceBucket, job[j].key) \in job[j].ops
                       \/ ~SourcePresent(j) )
                         => \E o \in QuarantineCopies(j) : Tagged(o, j)
                  /\ QuarantineCopies(j) = {} =>
                         /\ SourcePresent(j)
                         /\ Op("delete", job[j].sourceBucket, job[j].key) \notin job[j].ops)
    /\ [][\A j \in JobIds :
              (Moving(j) /\ SourcePresent(j) /\ ~SourcePresent(j)')
                  => \E o \in QuarantineCopies(j) : Tagged(o, j)]_vars

\* An invocation has ended after copying its source under the duplicates
\* prefix and deleting it.
C33_SourceGoneWithCopyInPlace ==
    \E j \in JobIds :
        /\ Moving(j)
        /\ Finished(j)
        /\ ~SourcePresent(j)
        /\ Op("delete", job[j].sourceBucket, job[j].key) \in job[j].ops
        /\ \E o \in QuarantineCopies(j) : Tagged(o, j) /\ o.by = j

\* ------------------------------------------------------------------ C34

\* C34: whatever DUPLICATE_ACTION is set to, an invocation whose duplicate
\* resolution took the replace branch (and deleted the source object) goes
\* on to the resizes: it does not end with the error duplicate_detected, and
\* when it has ended without any call failing it has succeeded.
C34_ReplaceBranchGoesOn ==
    \A j \in JobIds :
        (Finished(j) /\ job[j].duplicateHandling = "replace") =>
            /\ job[j].resized
            /\ Result(j).status = "error" => Result(j).error # MsgDuplicateDetected
            /\ flaky = {} => Succeeded(j)

\* ------------------------------------------------------------------ C37

\* The sidecar is the one this handler writes for the photograph job j has
\* downloaded.
WrittenForSamePhoto(o, j) ==
    /\ job[j].imageBuffer.kind = "image"
    /\ o \in ProcessedFolder(job[j].targetBucket, Key(<< >>, "IMG_0001", "jpg"), << "jpg" >>,
                             job[j].imageBuffer.photo, Clock[1])

\* C37: when a photograph that carries capture metadata is ingested again
\* after this handler has processed it, the scan matches the sidecar written
\* then with confidence high.
C37_ReingestMatchesWithHighConfidence ==
    \A j \in JobIds :
        ( /\ job[j].pc = "dupResolve"
          /\ ~IsNull(job[j].exif)
          /\ ~IsNull(job[j].exifDate)
          /\ \E o \in Fetched(j) :
                 /\ WrittenForSamePhoto(o, j)
                 /\ RemoveFirst(o.key, << ".", "json" >>) = Val(job[j].duplicateCheck).existingFile )
        => Val(job[j].duplicateCheck).confidence = "high"

\* ------------------------------------------------ concurrent invocations

\* The keys job j's six uploads go to, once it has built its metadata.
UploadKeys(j) ==
    IF IsNull(job[j].metadata) THEN {}
    ELSE { JobCommands(job[j])[i].Key : i \in 1..NumUploads }

\* Both jobs computed the same base name for sources of the same extension.
SameBaseName == job[1].baseName = job[2].baseName /\ job[1].ext = job[2].ext

\* Job j got through the duplicate check with a negative verdict and went
\* on to upload.
PassedDuplicateCheck(j) ==
    /\ ~IsNull(job[j].metadata)
    /\ ~PositiveVerdict(j)
    /\ Op("list", job[j].targetBucket, SearchPrefix(job[j].shotDate)) \in job[j].ops

\* C31: nothing serialises two invocations that compute the same base
\* name: when both have passed the duplicate check they write the same six
\* keys of the same bucket, and each successful put leaves its own object
\* at its key whatever the other invocation had put there (the later write
\* of a key wins).
C31_SameKeysLastWriteWins ==
    /\ []((SameBaseName /\ PassedDuplicateCheck(1) /\ PassedDuplicateCheck(2)) =>
            /\ job[1].targetBucket = job[2].targetBucket
            /\ UploadKeys(1) = UploadKeys(2))
    /\ [][\A j \in JobIds, i \in 1..NumUploads :
            (/\ job[j].pc = "upload"
             /\ job[j].uploads[i].st = "inflight"
             /\ job'[j].uploads[i].st = "done") =>
                LET k == JobCommands(job[j])[i] IN
                /\ Exists(store', job[j].targetBucket, k.Key)
                /\ Lookup(store', job[j].targetBucket, k.Key).by = j
                /\ Lookup(store', job[j].targetBucket, k.Key).body = k.Body]_vars

\* Two invocations with the same base name both passed the duplicate check
\* before either wrote, both succeeded, and the folder holds objects last
\* written by each of them.
C31_BothPassedAndWroteSameKeys ==
    /\ SameBaseName
    /\ \A j \in JobIds : Succeeded(j) /\ PassedDuplicateCheck(j)
    /\ UploadKeys(1) = UploadKeys(2)
    /\ \A j \in JobIds : \E o \in StoredBy(j) : o.key \in UploadKeys(j)

\* C32: two invocations whose base names differ do not influence each
\* other: under every interleaving each ends the way it ends when the
\* other has not started, which on an empty destination is a success with
\* no duplicate verdict that leaves its source in place.
C32_DifferentBaseNamesIndependent ==
    \A j \in JobIds :
        (Finished(j) /\ ~IsNull(job[1].exif) /\ ~IsNull(job[2].exif)
            /\ job[1].baseName # job[2].baseName) =>
            /\ Succeeded(j)
            /\ ~PositiveVerdict(j)
            /\ SourcePresent(j)

\* C35: a job whose duplicate check returned no verdict never writes into
\* a folder that already holds the record of another photo: none of the
\* keys it writes to is the sidecar its own scan fetched, compared with
\* the new photo and rejected.
C35_NegativeVerdictSparesExistingFolders ==
    \A j \in JobIds :
        (PassedDuplicateCheck(j) /\ \E o \in StoredBy(j) : o.key \in UploadKeys(j)) =>
            \A k \in UploadKeys(j) : Op("get", job[j].targetBucket, k) \notin job[j].ops

\* C39: once two concurrent invocations with the same base name have both
\* succeeded, the six objects of their folder were all last written by one
\* and the same invocation.
C39_FolderFromOneJob ==
    (SameBaseName /\ Succeeded(1) /\ Succeeded(2) /\ UploadKeys(1) = UploadKeys(2)) =>
        \E j \in JobIds :
            \A o \in store :
                (o.bucket = job[j].targetBucket /\ o.key \in UploadKeys(j)) => o.by = j

\* --------------------------------------------------- notified own writes

\* C36: when the destination is the ingress bucket itself, an invocation
\* triggered by an object another invocation wrote (one of the six outputs
\* or the quarantine copy) is turned away by validation: it makes no storage
\* call at all and does not succeed, so the chain of notifications ends
\* there.
C36_NotifiedOutputsAreTurnedAway ==
    job[2].pc # "off" =>
        /\ job[2].ops = {}
        /\ Finished(2) => ~Succeeded(2)

\* ------------------------------------------------------ bounded listing

\* The sidecars under the date prefix of job j's shot.
DaySidecars(j) ==
    { o \in store : /\ o.bucket = job[j].targetBucket
                    /\ startsWith(o.key, SearchPrefix(job[j].shotDate))
                    /\ o.body.kind = "json" }

\* C38: with at most 100 processed records under the date prefix, the one
\* listing of the scan hides no candidate: the sidecar of an identical
\* earlier photo is among the records the scan goes through, so the scan
\* ends with a verdict.
C38_ListingHidesNoCandidate ==
    \A j \in JobIds :
        (/\ job[j].pc \notin { "off", "start", "download", "exif", "dupList", "dupScan" }
         /\ Op("list", job[j].targetBucket, SearchPrefix(job[j].shotDate)) \in job[j].ops
         /\ Cardinality(DaySidecars(j)) <= MaxKeys
         /\ \E o \in DaySidecars(j) : o.by # j /\ WrittenForSamePhoto(o, j))
        => PositiveVerdict(j)

\* ---------------------------------------------------------- termination

\* C40: every invocation comes to an end: the download is attempted at most
\* three times, the scan lists once and goes through a bounded listing,
\* each of the six uploads is attempted at most three times (at most 18
\* put attempts), and the handler returns.
C40_BoundedWorkThenReturn ==
    /\ [](\A j \in JobIds :
            /\ job[j].attempt <= MaxRetries
            /\ Len(job[j].jsonFiles) <= MaxKeys
            /\ \A i \in 1..NumUploads : job[j].uploads[i].attempt <= MaxRetries)
    /\ <>Finished(1)

\* An invocation has succeeded after one of its uploads went through on its
\* third attempt.
C40_SucceededOnLastAttempt ==
    /\ Succeeded(1)
    /\ \E i \in 1..NumUploads : job[1].uploads[i].attempt = MaxRetries
=============================================================================
